---- MODULE Spec2Model ----
(***************************************************************************)
(* The execution and risk engine of the trading simulator: the order       *)
(* manager (execution/order_manager.py), the risk manager                  *)
(* (risk/risk_manager.py) and the position tracker                         *)
(* (risk/position_tracker.py), wired on one event bus (core/event_bus.py). *)
(*                                                                         *)
(* Money and prices are Decimal in the source.  Here every price and every *)
(* amount of money is an integer number of 0.0001 units (Scale units make  *)
(* 1.00), which is exact for the values the model draws: tick and fill     *)
(* prices have at most four decimals, quantities are integers.  The only   *)
(* places where the source rounds are the two quantize(Decimal("0.0001"))  *)
(* calls, modelled by QuantizeDiv (ROUND_HALF_EVEN, the decimal default).  *)
(*                                                                         *)
(* asyncio runs one task at a time and switches only at an await that      *)
(* suspends.  EventBus.publish records the event and starts the handlers   *)
(* of its type, which the loop runs in the order the publishes were made;  *)
(* the handlers of the core run to their end without suspending, except    *)
(* OrderManager._handle_signal, which sleeps in _simulate_fill.  So one    *)
(* action of the model is one publish together with the handlers it runs   *)
(* (and the events those publish in turn), and the signal handler is two   *)
(* actions: up to the sleep, and from the sleep on.  publish returns at    *)
(* once for a type without subscribers (RISK_BREACH, ORDER_UPDATE and      *)
(* POSITION_UPDATE have none in the core).                                 *)
(***************************************************************************)
EXTENDS Integers, Sequences, FiniteSets, TLC

VARIABLES
    positions,          \* PositionTracker._positions: symbol -> Position
    cash,               \* PositionTracker._cash
    rm_latest_prices,   \* RiskManager._latest_prices: symbol -> price
    om_latest_prices,   \* OrderManager._latest_prices: symbol -> price
    orders,             \* OrderManager._orders, in creation order (id = index)
    pc,                 \* per order: where OrderManager._handle_signal stands
    history,            \* EventBus._history
    run,                \* per symbol: the same-direction fills since the symbol was flat
    nEvents,            \* calls made from outside so far (publishes, reads, bus calls)
    snapshot,           \* what get_portfolio_snapshot returned to its last caller
    subscribers,        \* EventBus._subscribers: event type -> list of handlers
    calls,              \* the publish calls made so far, each with its progress
    tasks,              \* the handler invocations asyncio.gather has started
    buslog,             \* the subscribe and unsubscribe calls made so far, with their outcome
    stops,              \* StopLossManager._stops: symbol -> StopLevel
    triggered           \* StopLossManager._triggered

\* The state of the bus itself, besides its history.
busVars == <<subscribers, calls, tasks, buslog>>

\* The state of the stop-loss manager.
stopVars == <<stops, triggered>>

vars == <<positions, cash, rm_latest_prices, om_latest_prices, orders, pc,
          history, run, nEvents, snapshot, subscribers, calls, tasks, buslog,
          stops, triggered>>

----------------------------------------------------------------------------
(* Bounds of the model *)

\* Calls made into the core from outside (TICK, SIGNAL and FILL events
\* published by the feed, the strategies or the tests, and snapshot reads) in
\* one behaviour.
MaxEvents == 3

\* Calls made on the bus (subscribe, unsubscribe, publish, the publishes of
\* handlers included) in one behaviour of the bus on its own.
MaxCalls == 4

\* Events published in one behaviour of the bounded-history scenario: two
\* more than the history retains.
MaxPublishes == 1002

\* Fills and ticks published in one behaviour of the stop-loss scenarios.
MaxStopEvents == 4

\* FILL publishes whose handling may overlap in one behaviour.
MaxOverlap == 3

(* Units *)
Scale == 10000

Symbols == {"AAPL", "MSFT"}
Sides == {"buy", "sell"}

\* Tick prices the feed may send: 50.50 and 150.00.
TickPrices == {505000, 1500000}
\* Prices of the fills published directly on the bus: 50.00 and 150.00.
FillPrices == {500000, 1500000}
\* Quantities of the fills published directly on the bus.
FillQuantities == {1, 2}
\* Signal strengths, in hundredths (0.00 and 0.02).
Strengths == {0, 2}

(* Settings (config.py) and constructor arguments, at the scale of the model *)
max_order_value == 2500000          \* 250.00
max_position_size == 3500000        \* 350.00
\* max_drawdown_pct = 0.05 = MaxDrawdownNum / MaxDrawdownDen
MaxDrawdownNum == 1
MaxDrawdownDen == 20
initial_cash == 10000000            \* 1000.00
max_history == 1000
RiskDefaultPrice == 1000000         \* Decimal("100"), risk manager
FillDefaultPrice == 1000000         \* Decimal("100.00"), order manager
SlippageDen == 10000                \* slippage = fill_price * Decimal("0.0001")
\* stop_loss_pct = 0.02 = StopLossNum / StopLossDen
StopLossNum == 2
StopLossDen == 100

\* The order_id of a FILL published directly on the bus (a fresh uuid4 that
\* is no order of the order manager).
ExternalId == 0

----------------------------------------------------------------------------
(* Helpers *)

Abs(x) == IF x < 0 THEN 0 - x ELSE x

Min(a, b) == IF a <= b THEN a ELSE b

Max(a, b) == IF a >= b THEN a ELSE b

\* dict.get(key, default)
Get(d, key, default) == IF key \in DOMAIN d THEN d[key] ELSE default

\* d[key] = value on a dict
Put(d, key, value) ==
    [k \in (DOMAIN d) \cup {key} |-> IF k = key THEN value ELSE d[k]]

\* (num / den).quantize(Decimal("0.0001")) for den > 0, in 0.0001 units:
\* the quotient rounded to the nearest integer, ties to the even one.
QuantizeDiv(num, den) ==
    LET q == num \div den
        r == num % den
    IN  IF 2 * r < den THEN q
        ELSE IF 2 * r > den THEN q + 1
        ELSE IF q % 2 = 0 THEN q ELSE q + 1

\* Position(symbol=symbol): every numeric field defaults to 0.
NewPosition(symbol) ==
    [symbol |-> symbol, quantity |-> 0, avg_entry_price |-> 0,
     current_price |-> 0, unrealized_pnl |-> 0, realized_pnl |-> 0]

\* Record as a slip would have it: a full history keeps its oldest events
\* and drops the new one.
Record_KeepOldest(h, event) ==
    LET appended == Append(h, event)
    IN  IF Len(appended) > max_history
        THEN SubSeq(appended, 1, max_history)
        ELSE appended

\* EventBus._record
Record(h, event) ==
    LET appended == Append(h, event)
    IN  IF Len(appended) > max_history
        THEN SubSeq(appended, Len(appended) - max_history + 1, Len(appended))
        ELSE appended

RECURSIVE RecordAll(_, _)
RecordAll(h, events) ==
    IF events = <<>> THEN h
    ELSE RecordAll(Record(h, Head(events)), Tail(events))

----------------------------------------------------------------------------
(* Position tracker *)

\* close_qty = min(fill.quantity, abs(pos.quantity))
CloseQty(pos, fill) == Min(fill.quantity, Abs(pos.quantity))

\* Realized as a slip would have it: the whole fill quantity instead of close_qty.
Realized_WholeFill(pos, fill) ==
    IF fill.side = "buy"
    THEN (pos.avg_entry_price - fill.price) * fill.quantity
    ELSE (fill.price - pos.avg_entry_price) * fill.quantity

\* realized: what a fill against the opposite position adds to realized_pnl
\* ((avg - price) * close_qty closing a short, (price - avg) * close_qty
\* closing a long).
Realized(pos, fill) ==
    IF fill.side = "buy"
    THEN (pos.avg_entry_price - fill.price) * CloseQty(pos, fill)
    ELSE (fill.price - pos.avg_entry_price) * CloseQty(pos, fill)

\* Whether the fill runs against the position (the "closing/reducing" branches).
Closes(pos, fill) ==
    IF fill.side = "buy" THEN pos.quantity < 0 ELSE pos.quantity > 0

\* new_qty
NewQty(pos, fill) ==
    IF fill.side = "buy" THEN pos.quantity + fill.quantity
                         ELSE pos.quantity - fill.quantity

\* new_avg, quantized to four decimals
NewAvg(pos, fill) ==
    LET cost == fill.price * fill.quantity
        new_qty == NewQty(pos, fill)
    IN  IF fill.side = "buy"
        THEN IF pos.quantity >= 0
             THEN \* adding to long or opening long
                  IF new_qty > 0
                  THEN QuantizeDiv(pos.avg_entry_price * pos.quantity + cost, new_qty)
                  ELSE 0
             ELSE \* closing/reducing short
                  IF new_qty < 0 THEN pos.avg_entry_price ELSE fill.price
        ELSE IF pos.quantity <= 0
             THEN \* adding to short or opening short
                  IF pos.quantity = 0 THEN fill.price ELSE pos.avg_entry_price
             ELSE \* closing/reducing long
                  IF new_qty > 0 THEN pos.avg_entry_price ELSE 0

\* ApplyFill as a slip would have it: a position that returns to flat
\* starts over, its realized P&L included.
ApplyFill_ResetsOnFlat(pos, fill) ==
    IF NewQty(pos, fill) = 0 THEN NewPosition(pos.symbol)
    ELSE [pos EXCEPT
            !.realized_pnl = IF Closes(pos, fill) THEN @ + Realized(pos, fill) ELSE @,
            !.quantity = NewQty(pos, fill),
            !.avg_entry_price = NewAvg(pos, fill)]

\* The position PositionTracker._handle_fill stores for the fill's symbol.
ApplyFill(pos, fill) ==
    [pos EXCEPT
        !.realized_pnl = IF Closes(pos, fill) THEN @ + Realized(pos, fill) ELSE @,
        !.quantity = NewQty(pos, fill),
        !.avg_entry_price = NewAvg(pos, fill)]

\* CashAfterFill as a slip would have it: every fill is paid for, a sale too.
CashAfterFill_AlwaysDebit(c, fill) == c - fill.price * fill.quantity

\* self._cash after the fill
CashAfterFill(c, fill) ==
    IF fill.side = "buy" THEN c - fill.price * fill.quantity
                         ELSE c + fill.price * fill.quantity

\* ApplyTick as a slip would have it: the entry price follows the tick.
ApplyTick_MovesEntry(pos, price) ==
    [pos EXCEPT
        !.current_price = price,
        !.avg_entry_price = price,
        !.unrealized_pnl = (price - pos.avg_entry_price) * pos.quantity]

\* The position PositionTracker._handle_tick stores for the tick's symbol.
ApplyTick(pos, price) ==
    [pos EXCEPT
        !.current_price = price,
        !.unrealized_pnl = (price - pos.avg_entry_price) * pos.quantity]

\* get_position(symbol): the stored position, or the default Position when
\* there is none (the callers read only its quantity, 0 either way).
GetPosition(symbol) == Get(positions, symbol, NewPosition(symbol))

\* SumPositions as a slip would have it: positions valued at their entry
\* price instead of the current price.
RECURSIVE SumPositions_AtCost(_, _)
SumPositions_AtCost(syms, field) ==
    IF syms = {} THEN 0
    ELSE LET s == CHOOSE x \in syms : TRUE
             p == positions[s]
             term == CASE field = "value" -> p.avg_entry_price * p.quantity
                       [] field = "unrealized" -> p.unrealized_pnl
                       [] field = "realized" -> p.realized_pnl
         IN  term + SumPositions_AtCost(syms \ {s}, field)

RECURSIVE SumPositions(_, _)
SumPositions(syms, field) ==
    IF syms = {} THEN 0
    ELSE LET s == CHOOSE x \in syms : TRUE
             p == positions[s]
             term == CASE field = "value" -> p.current_price * p.quantity
                       [] field = "unrealized" -> p.unrealized_pnl
                       [] field = "realized" -> p.realized_pnl
         IN  term + SumPositions(syms \ {s}, field)

\* get_portfolio_snapshot()
PortfolioSnapshot ==
    [positions |-> positions,
     total_equity |-> cash + SumPositions(DOMAIN positions, "value"),
     total_unrealized_pnl |-> SumPositions(DOMAIN positions, "unrealized"),
     total_realized_pnl |-> SumPositions(DOMAIN positions, "realized")]

----------------------------------------------------------------------------
(* Risk manager *)

\* RiskPrice as a slip would have it: a symbol without a tick is priced 0.
RiskPrice_ZeroDefault(order) == Get(rm_latest_prices, order.symbol, 0)

\* price = self._latest_prices.get(order.symbol, Decimal("100"))
RiskPrice(order) == Get(rm_latest_prices, order.symbol, RiskDefaultPrice)

\* order_value = price * order.quantity
OrderValue(order) == RiskPrice(order) * order.quantity

\* projected_value = price * abs(current_qty + order.quantity)
ProjectedValue(order) ==
    RiskPrice(order) * Abs(GetPosition(order.symbol).quantity + order.quantity)

\* DrawdownLoss as a slip would have it: cash alone instead of total equity.
DrawdownLoss_CashOnly == initial_cash - cash

\* initial_cash - snapshot.total_equity, the numerator of the drawdown
DrawdownLoss == initial_cash - PortfolioSnapshot.total_equity

\* drawdown > max_drawdown_pct, checked only when initial_cash > 0; the
\* quotient loss / initial_cash is compared by cross-multiplication.
DrawdownExceeded ==
    /\ initial_cash > 0
    /\ DrawdownLoss * MaxDrawdownDen > MaxDrawdownNum * initial_cash

\* RiskRule as a slip would have it: position size checked before order value.
RiskRule_PositionFirst(order) ==
    IF ProjectedValue(order) > max_position_size THEN "max_position_size_exceeded"
    ELSE IF OrderValue(order) > max_order_value THEN "max_order_value_exceeded"
    ELSE IF DrawdownExceeded THEN "max_drawdown_exceeded"
    ELSE "approved"

\* The rule _check_order rejects the order with, or "approved".
RiskRule(order) ==
    IF OrderValue(order) > max_order_value THEN "max_order_value_exceeded"
    ELSE IF ProjectedValue(order) > max_position_size THEN "max_position_size_exceeded"
    ELSE IF DrawdownExceeded THEN "max_drawdown_exceeded"
    ELSE "approved"

\* The message of the rejection: the rule's text with the offending value
\* and the limit.
RiskMessage(order, rule) ==
    CASE rule = "max_order_value_exceeded" ->
            <<"Order value", OrderValue(order), "exceeds limit", max_order_value>>
      [] rule = "max_position_size_exceeded" ->
            <<"Projected position", ProjectedValue(order), "exceeds limit", max_position_size>>
      [] rule = "max_drawdown_exceeded" ->
            <<"Portfolio drawdown", DrawdownLoss, "exceeds limit", MaxDrawdownNum>>

\* Reject as a slip would have it: the ORDER_UPDATE is left out.
Reject_BreachOnly(order, rule, message) ==
    << [type |-> "RISK_BREACH", rule |-> rule, message |-> message] >>

\* _reject: the events it publishes, in order.
Reject(order, rule, message) ==
    << [type |-> "RISK_BREACH", rule |-> rule, message |-> message],
       [type |-> "ORDER_UPDATE", order_id |-> order.id, status |-> "rejected",
        reason |-> message] >>

\* The events _check_order publishes for the order.
CheckOrderEvents(order) ==
    LET rule == RiskRule(order)
    IN  IF rule = "approved" THEN <<>>
        ELSE Reject(order, rule, RiskMessage(order, rule))

----------------------------------------------------------------------------
(* Order manager *)

\* int(strength * 100) for strength = s / 100 as a float: the binary product
\* falls just below the integer for 0.29, 0.57 and 0.58.
IntStrengthTimes100(s) == IF s \in {29, 57, 58} THEN s - 1 ELSE s

\* quantity = max(1, int(signal.strength * 100))
SignalQuantity(s) == Max(1, IntStrengthTimes100(s))

\* The OrderRequest _handle_signal creates (market order, no limit price;
\* limit_price 0 stands for None).
NewOrder(id, signal) ==
    [id |-> id, symbol |-> signal.symbol, side |-> signal.side,
     quantity |-> SignalQuantity(signal.strength), order_type |-> "market",
     limit_price |-> 0, strategy_id |-> signal.strategy_id]

\* What get_order returns for an id the lookup does not hold (None).
NoOrder == [id |-> ExternalId]

\* GetOrder as a slip would have it: the lookup holds the first order only.
GetOrder_FirstOnly(os, id) ==
    IF os # << >> /\ os[1].id = id THEN os[1] ELSE NoOrder

\* get_order(order_id): self._orders.get(order_id), on the lookup os
GetOrder(os, id) ==
    IF \E i \in DOMAIN os : os[i].id = id
    THEN os[CHOOSE i \in DOMAIN os : os[i].id = id]
    ELSE NoOrder

\* get_all_orders(): list(self._orders.values()), in insertion order
GetAllOrders(os) == os

\* FillPrice as a slip would have it: the slippage is added for a SELL too.
FillPrice_AlwaysAdds(order) ==
    LET reference == Get(om_latest_prices, order.symbol,
                         IF order.limit_price # 0 THEN order.limit_price
                                                  ELSE FillDefaultPrice)
    IN  reference + QuantizeDiv(reference, SlippageDen)

\* fill_price of _simulate_fill, quantized to four decimals
FillPrice(order) ==
    LET reference == Get(om_latest_prices, order.symbol,
                         IF order.limit_price # 0 THEN order.limit_price
                                                  ELSE FillDefaultPrice)
    IN  IF order.side = "buy"
        THEN reference + QuantizeDiv(reference, SlippageDen)
        ELSE reference + QuantizeDiv(0 - reference, SlippageDen)

\* NewFill as a slip would have it: one share whatever the order's quantity.
NewFill_UnitQuantity(order) ==
    [order_id |-> order.id, symbol |-> order.symbol, side |-> order.side,
     quantity |-> 1, price |-> FillPrice(order)]

\* The Fill _simulate_fill publishes for the order.
NewFill(order) ==
    [order_id |-> order.id, symbol |-> order.symbol, side |-> order.side,
     quantity |-> order.quantity, price |-> FillPrice(order)]

FillEvent(fill) ==
    [type |-> "FILL", order_id |-> fill.order_id, symbol |-> fill.symbol,
     side |-> fill.side, quantity |-> fill.quantity, price |-> fill.price]

----------------------------------------------------------------------------
(* Same-direction runs (history variable) *)

\* run[s] after a fill on s: a fill on a flat symbol starts a run, a fill in
\* the position's direction extends it, a fill against the position ends it
\* (dir "none") until the symbol is flat again.
RunAfterFill(r, pos, fill) ==
    IF pos.quantity = 0
    THEN [dir |-> fill.side, n |-> 1, qty |-> fill.quantity,
          cost |-> fill.price * fill.quantity]
    ELSE IF r.dir = fill.side /\ ~Closes(pos, fill)
    THEN [dir |-> r.dir, n |-> r.n + 1, qty |-> r.qty + fill.quantity,
          cost |-> r.cost + fill.price * fill.quantity]
    ELSE [dir |-> "none", n |-> 0, qty |-> 0, cost |-> 0]

\* No snapshot has been read yet.
NoSnapshot == [positions |-> << >>, total_equity |-> 0,
               total_unrealized_pnl |-> 0, total_realized_pnl |-> 0]

\* The subscriptions after position_tracker.start(), risk_manager.start() and
\* order_manager.start(), in the order main() makes them.
StartedSubscribers ==
    [type \in {"FILL", "TICK", "ORDER_REQUEST", "SIGNAL"} |->
        CASE type = "FILL" -> << "PositionTracker._handle_fill" >>
          [] type = "TICK" -> << "PositionTracker._handle_tick",
                                 "RiskManager._update_price",
                                 "OrderManager._update_price" >>
          [] type = "ORDER_REQUEST" -> << "RiskManager._check_order" >>
          [] type = "SIGNAL" -> << "OrderManager._handle_signal" >>]

----------------------------------------------------------------------------
(* Initial state: the components constructed and started, nothing published *)

Init ==
    /\ positions = << >>
    /\ cash = initial_cash
    /\ rm_latest_prices = << >>
    /\ om_latest_prices = << >>
    /\ orders = << >>
    /\ pc = << >>
    /\ history = << >>
    /\ run = [s \in Symbols |-> [dir |-> "none", n |-> 0, qty |-> 0, cost |-> 0]]
    /\ nEvents = 0
    /\ snapshot = NoSnapshot
    /\ subscribers = StartedSubscribers
    /\ calls = << >>
    /\ tasks = << >>
    /\ buslog = << >>
    /\ stops = << >>
    /\ triggered = {}

----------------------------------------------------------------------------
(* Actions *)

\* bus.publish(TICK): the position tracker marks the position to the price
\* (when the symbol has one), the risk manager and the order manager cache
\* the price.
Tick(s, price) ==
    /\ nEvents < MaxEvents
    /\ nEvents' = nEvents + 1
    /\ history' = Record(history, [type |-> "TICK", symbol |-> s, price |-> price])
    /\ positions' = IF s \in DOMAIN positions
                    THEN Put(positions, s, ApplyTick(positions[s], price))
                    ELSE positions
    /\ rm_latest_prices' = Put(rm_latest_prices, s, price)
    /\ om_latest_prices' = Put(om_latest_prices, s, price)
    /\ UNCHANGED <<cash, orders, pc, run, snapshot, busVars, stopVars>>

\* Signal as a slip would have it: the risk manager sets the value of an
\* approved order aside from the cash.
Signal_ReservesCash(s, side, strength) ==
    /\ nEvents < MaxEvents
    /\ nEvents' = nEvents + 1
    /\ LET signal == [strategy_id |-> "test", symbol |-> s, side |-> side,
                      strength |-> strength]
           order == NewOrder(Len(orders) + 1, signal)
       IN  /\ orders' = Append(orders, order)
           /\ pc' = Append(pc, "sleep")
           /\ history' = RecordAll(history,
                  << [type |-> "SIGNAL", strategy_id |-> signal.strategy_id,
                      symbol |-> s, side |-> side, strength |-> strength],
                     [type |-> "ORDER_REQUEST", order |-> order] >>
                  \o CheckOrderEvents(order))
           /\ cash' = IF RiskRule(order) = "approved"
                      THEN cash - OrderValue(order) ELSE cash
    /\ UNCHANGED <<positions, rm_latest_prices, om_latest_prices, run,
                   snapshot, busVars, stopVars>>

\* bus.publish(SIGNAL): OrderManager._handle_signal creates the order, stores
\* it and publishes ORDER_REQUEST; RiskManager._check_order handles that
\* event; then _handle_signal enters _simulate_fill and sleeps.
Signal(s, side, strength) ==
    /\ nEvents < MaxEvents
    /\ nEvents' = nEvents + 1
    /\ LET signal == [strategy_id |-> "test", symbol |-> s, side |-> side,
                      strength |-> strength]
           order == NewOrder(Len(orders) + 1, signal)
       IN  /\ orders' = Append(orders, order)
           /\ pc' = Append(pc, "sleep")
           /\ history' = RecordAll(history,
                  << [type |-> "SIGNAL", strategy_id |-> signal.strategy_id,
                      symbol |-> s, side |-> side, strength |-> strength],
                     [type |-> "ORDER_REQUEST", order |-> order] >>
                  \o CheckOrderEvents(order))
    /\ UNCHANGED <<positions, cash, rm_latest_prices, om_latest_prices, run,
                   snapshot, busVars, stopVars>>

\* HandleFill as a slip would have it: the POSITION_UPDATE carries the
\* position as it was before the fill.
HandleFill_StaleUpdate(fill) ==
    LET pos == GetPosition(fill.symbol)
        new == ApplyFill(pos, fill)
    IN  /\ positions' = Put(positions, fill.symbol, new)
        /\ cash' = CashAfterFill(cash, fill)
        /\ run' = [run EXCEPT ![fill.symbol] = RunAfterFill(@, pos, fill)]
        /\ history' = RecordAll(history,
               << FillEvent(fill), [type |-> "POSITION_UPDATE", position |-> pos] >>)

\* PositionTracker._handle_fill for a published FILL, with the
\* POSITION_UPDATE it publishes before it returns.
HandleFill(fill) ==
    LET pos == GetPosition(fill.symbol)
        new == ApplyFill(pos, fill)
    IN  /\ positions' = Put(positions, fill.symbol, new)
        /\ cash' = CashAfterFill(cash, fill)
        /\ run' = [run EXCEPT ![fill.symbol] = RunAfterFill(@, pos, fill)]
        /\ history' = RecordAll(history,
               << FillEvent(fill), [type |-> "POSITION_UPDATE", position |-> new] >>)

\* SimulateFill as a slip would have it: the fill is left to a task of its
\* own and _handle_signal returns without awaiting it.
SimulateFill_ReturnsBeforeFill(i) ==
    /\ pc[i] = "sleep"
    /\ \A j \in 1..(i - 1) : pc[j] # "sleep"
    /\ pc' = [pc EXCEPT ![i] = "done"]
    /\ UNCHANGED <<positions, cash, run, history, rm_latest_prices, om_latest_prices,
                   orders, nEvents, snapshot, busVars, stopVars>>

\* OrderManager._simulate_fill after its sleep (the sleeps are equal, so the
\* orders wake in the order they went to sleep): the fill is priced from the
\* latest price and published, and the position tracker handles it.
SimulateFill(i) ==
    /\ pc[i] = "sleep"
    /\ \A j \in 1..(i - 1) : pc[j] # "sleep"
    /\ HandleFill(NewFill(orders[i]))
    /\ pc' = [pc EXCEPT ![i] = "done"]
    /\ UNCHANGED <<rm_latest_prices, om_latest_prices, orders, nEvents,
                   snapshot, busVars, stopVars>>

\* position_tracker.get_portfolio_snapshot() called from outside (the
\* snapshot loop of main(), the API): the caller gets the snapshot, nothing
\* is published.
GetPortfolioSnapshot ==
    /\ nEvents < MaxEvents
    /\ nEvents' = nEvents + 1
    /\ snapshot' = PortfolioSnapshot
    /\ UNCHANGED <<positions, cash, rm_latest_prices, om_latest_prices, orders,
                   pc, history, run, busVars, stopVars>>

\* bus.publish(FILL) by a caller other than the order manager (the tests of
\* the position tracker and of the risk manager publish fills directly).
PublishFill(s, side, quantity, price) ==
    /\ nEvents < MaxEvents
    /\ nEvents' = nEvents + 1
    /\ HandleFill([order_id |-> ExternalId, symbol |-> s, side |-> side,
                   quantity |-> quantity, price |-> price])
    /\ UNCHANGED <<rm_latest_prices, om_latest_prices, orders, pc,
                   snapshot, busVars, stopVars>>

Next ==
    \/ \E s \in Symbols, price \in TickPrices : Tick(s, price)
    \/ \E s \in Symbols, side \in Sides, strength \in Strengths : Signal(s, side, strength)
    \/ \E i \in DOMAIN orders : SimulateFill(i)
    \/ \E s \in Symbols, side \in Sides, quantity \in FillQuantities, price \in FillPrices :
          PublishFill(s, side, quantity, price)

Spec == Init /\ [][Next]_vars

----------------------------------------------------------------------------
(* The accumulation scenario of test_position_size_limit_blocks_accumulation: *)
(* a symbol's price is set by one tick before any signal for it, and each     *)
(* signal is published only after the previous one has been handled to the    *)
(* end (its fill included); all signals for a symbol are on one side.         *)

TickOnce(s, price) ==
    /\ s \notin DOMAIN rm_latest_prices
    /\ Tick(s, price)

AwaitedSignal(s, side, strength) ==
    /\ s \in DOMAIN rm_latest_prices
    /\ \A i \in DOMAIN orders : pc[i] = "done"
    /\ \A i \in DOMAIN orders : orders[i].symbol = s => orders[i].side = side
    /\ Signal(s, side, strength)

NextAccum ==
    \/ \E s \in Symbols, price \in TickPrices : TickOnce(s, price)
    \/ \E s \in Symbols, side \in Sides, strength \in Strengths : AwaitedSignal(s, side, strength)
    \/ \E i \in DOMAIN orders : SimulateFill(i)

SpecAccum == Init /\ [][NextAccum]_vars

----------------------------------------------------------------------------
(* The position tracker alone on the bus, as in its tests: fills and ticks   *)
(* are published directly and the portfolio snapshot is read in between.     *)

NextTracker ==
    \/ \E s \in Symbols, price \in TickPrices : Tick(s, price)
    \/ \E s \in Symbols, side \in Sides, quantity \in FillQuantities, price \in FillPrices :
          PublishFill(s, side, quantity, price)
    \/ GetPortfolioSnapshot

SpecTracker == Init /\ [][NextTracker]_vars

----------------------------------------------------------------------------
(* Order sizing: one signal of any strength in hundredths, with the ticks   *)
(* around it and the fill of its order.                                      *)

\* Signal strengths 0.00, 0.01, ..., 1.00, in hundredths.
AllStrengths == 0..100

\* bus.publish(SIGNAL) for the only signal of the behaviour.
SizedSignal(s, side, strength) ==
    /\ orders = << >>
    /\ Signal(s, side, strength)

NextSizing ==
    \/ \E s \in Symbols, price \in TickPrices : Tick(s, price)
    \/ \E s \in Symbols, side \in Sides, strength \in AllStrengths :
          SizedSignal(s, side, strength)
    \/ \E i \in DOMAIN orders : SimulateFill(i)

SpecSizing == Init /\ [][NextSizing]_vars

----------------------------------------------------------------------------
(* The stop-loss manager, beside the position tracker on one bus as in its   *)
(* tests: fills and ticks are published directly.  A stop price is kept in   *)
(* units of 0.0001 / StopLossDen, in which avg_entry_price * (1 -+ pct) is   *)
(* exact (the source does not round it).                                     *)

\* Tick prices on the stops of an entry at 50.00: 49.00 (long), 51.00 (short).
StopTickPrices == {490000, 510000}

\* The fills of these scenarios are of one share: a position grows, shrinks
\* and closes by one share at a time, at either fill price.
StopFillQuantities == {1}

\* dict.pop(key, None)
Drop(d, key) == [k \in (DOMAIN d) \ {key} |-> d[k]]

\* The StopLevel _handle_fill stores for a position that is not flat.
NewStopLevel(symbol, pos) ==
    [symbol |-> symbol,
     stop_price |-> IF pos.quantity > 0
                    THEN pos.avg_entry_price * (StopLossDen - StopLossNum)
                    ELSE pos.avg_entry_price * (StopLossDen + StopLossNum),
     side_to_close |-> IF pos.quantity > 0 THEN "sell" ELSE "buy",
     quantity |-> Abs(pos.quantity)]

\* StopsAfterFill as a slip would have it: the stop of a closed position is
\* left in place.
StopsAfterFill_KeepsStop(st, symbol, pos) ==
    IF pos.quantity = 0 THEN st
    ELSE Put(st, symbol, NewStopLevel(symbol, pos))

\* self._stops after StopLossManager._handle_fill has seen pos, the position
\* get_position returned (quantity 0 stands for None as well).
StopsAfterFill(st, symbol, pos) ==
    IF pos.quantity = 0 THEN Drop(st, symbol)
    ELSE Put(st, symbol, NewStopLevel(symbol, pos))

\* self._triggered after StopLossManager._handle_fill: the symbol is
\* discarded on both branches.
TriggeredAfterFill(tr, symbol, pos) == tr \ {symbol}

\* Crosses as a slip would have it: the boundary does not count.
Crosses_Strict(stop, price) ==
    IF stop.side_to_close = "sell"
    THEN price * StopLossDen < stop.stop_price
    ELSE price * StopLossDen > stop.stop_price

\* triggered: tick.price <= stop.stop_price for a long, >= for a short
Crosses(stop, price) ==
    IF stop.side_to_close = "sell"
    THEN price * StopLossDen <= stop.stop_price
    ELSE price * StopLossDen >= stop.stop_price

\* Whether StopLossManager._handle_tick publishes a signal for the tick.
StopFires(symbol, price) ==
    /\ symbol \in DOMAIN stops
    /\ symbol \notin triggered
    /\ Crosses(stops[symbol], price)

\* MarkTriggered as a slip would have it: the flag is not set.
MarkTriggered_Forgets(tr, symbol) == tr

\* self._triggered.add(tick.symbol)
MarkTriggered(tr, symbol) == tr \cup {symbol}

\* The SIGNAL event of a stop (strength 1.0, in hundredths).
StopSignal(stop) ==
    [type |-> "SIGNAL", strategy_id |-> "stop_loss", symbol |-> stop.symbol,
     side |-> stop.side_to_close, strength |-> 100]

\* The subscriptions after tracker.start() and slm.start(), and after the
\* two in the other order.
TrackerFirstSubscribers ==
    [type \in {"FILL", "TICK"} |->
        IF type = "FILL"
        THEN << "PositionTracker._handle_fill", "StopLossManager._handle_fill" >>
        ELSE << "PositionTracker._handle_tick", "StopLossManager._handle_tick" >>]

StopFirstSubscribers ==
    [type \in {"FILL", "TICK"} |->
        IF type = "FILL"
        THEN << "StopLossManager._handle_fill", "PositionTracker._handle_fill" >>
        ELSE << "StopLossManager._handle_tick", "PositionTracker._handle_tick" >>]

\* The components constructed and started, with the subscriptions subs.
InitWith(subs) ==
    /\ positions = << >>
    /\ cash = initial_cash
    /\ rm_latest_prices = << >>
    /\ om_latest_prices = << >>
    /\ orders = << >>
    /\ pc = << >>
    /\ history = << >>
    /\ run = [s \in Symbols |-> [dir |-> "none", n |-> 0, qty |-> 0, cost |-> 0]]
    /\ nEvents = 0
    /\ snapshot = NoSnapshot
    /\ subscribers = subs
    /\ calls = << >>
    /\ tasks = << >>
    /\ buslog = << >>
    /\ stops = << >>
    /\ triggered = {}

InitStopAnyOrder ==
    \E subs \in {TrackerFirstSubscribers, StopFirstSubscribers} : InitWith(subs)

\* The handlers of an event run in the order of the subscriber list: whether
\* the position tracker's fill handler runs before the stop-loss manager's.
TrackerHandlesFillFirst == subscribers["FILL"][1] = "PositionTracker._handle_fill"

\* bus.publish(FILL) with both fill handlers: the position tracker applies
\* the fill (and publishes POSITION_UPDATE), the stop-loss manager reads the
\* symbol's position from the tracker, as it is when its handler runs, and
\* sets or removes the stop.
StopPublishFill(s, side, quantity, price) ==
    /\ nEvents < MaxStopEvents
    /\ nEvents' = nEvents + 1
    /\ HandleFill([order_id |-> ExternalId, symbol |-> s, side |-> side,
                   quantity |-> quantity, price |-> price])
    /\ LET pos == IF TrackerHandlesFillFirst THEN positions'[s] ELSE GetPosition(s)
       IN  /\ stops' = StopsAfterFill(stops, s, pos)
           /\ triggered' = TriggeredAfterFill(triggered, s, pos)
    /\ UNCHANGED <<rm_latest_prices, om_latest_prices, orders, pc, snapshot, busVars>>

\* bus.publish(TICK) with both tick handlers: the position tracker marks the
\* position to the price, the stop-loss manager marks the symbol triggered
\* and publishes the closing SIGNAL when the price crosses an armed stop.
StopPublishTick(s, price) ==
    /\ nEvents < MaxStopEvents
    /\ nEvents' = nEvents + 1
    /\ positions' = IF s \in DOMAIN positions
                    THEN Put(positions, s, ApplyTick(positions[s], price))
                    ELSE positions
    /\ IF StopFires(s, price)
       THEN /\ triggered' = MarkTriggered(triggered, s)
            /\ history' = RecordAll(history,
                   << [type |-> "TICK", symbol |-> s, price |-> price],
                      StopSignal(stops[s]) >>)
       ELSE /\ triggered' = triggered
            /\ history' = Record(history, [type |-> "TICK", symbol |-> s, price |-> price])
    /\ UNCHANGED <<cash, rm_latest_prices, om_latest_prices, orders, pc, run,
                   snapshot, busVars, stops>>

NextStop ==
    \/ \E s \in Symbols, side \in Sides, quantity \in StopFillQuantities, price \in FillPrices :
          StopPublishFill(s, side, quantity, price)
    \/ \E s \in Symbols, price \in StopTickPrices : StopPublishTick(s, price)

SpecStopAnyOrder == InitStopAnyOrder /\ [][NextStop]_vars

----------------------------------------------------------------------------
(* The five components on one bus: a stop that fires publishes a SIGNAL,     *)
(* which the order manager turns into an order, the risk manager checks and  *)
(* the order manager fills.  Prices are low (0.49 to 0.51) so that the risk  *)
(* limits admit an order of 100 shares.                                      *)

\* The subscriptions after the start() of the position tracker, the risk
\* manager, the order manager and the stop-loss manager, in that order.
PipelineSubscribers ==
    [type \in {"FILL", "TICK", "ORDER_REQUEST", "SIGNAL"} |->
        CASE type = "FILL" -> << "PositionTracker._handle_fill",
                                 "StopLossManager._handle_fill" >>
          [] type = "TICK" -> << "PositionTracker._handle_tick",
                                 "RiskManager._update_price",
                                 "OrderManager._update_price",
                                 "StopLossManager._handle_tick" >>
          [] type = "ORDER_REQUEST" -> << "RiskManager._check_order" >>
          [] type = "SIGNAL" -> << "OrderManager._handle_signal" >>]

InitPipeline == InitWith(PipelineSubscribers)

\* The fills published directly: 1 or 100 shares at 0.50.
PipelineFillQuantities == {1, 100}

PipelineFillPrice == 5000

\* The strength of the signals published directly: 0.01, one share.
PipelineStrength == 1

\* Tick prices on the stops of an entry at 0.50: 0.49 (long), 0.51 (short).
PipelineTickPrices == {4900, 5100}

\* A handler task gather has created has not run yet.
HandlerPending == \E t \in DOMAIN tasks : tasks[t].state = "pending"

\* bus.publish(FILL) from outside, handled by the position tracker and then
\* the stop-loss manager.
PipelineFill(s, side, quantity) ==
    /\ ~HandlerPending
    /\ StopPublishFill(s, side, quantity, PipelineFillPrice)

\* bus.publish(TICK) with its four handlers: the tracker marks the position,
\* the risk manager and the order manager cache the price, and the stop-loss
\* manager, when the price crosses an armed stop, marks the symbol triggered
\* and publishes the SIGNAL, for which gather creates the order manager's
\* handler task.
PipelineTick(s, price) ==
    /\ ~HandlerPending
    /\ nEvents < MaxStopEvents
    /\ nEvents' = nEvents + 1
    /\ positions' = IF s \in DOMAIN positions
                    THEN Put(positions, s, ApplyTick(positions[s], price))
                    ELSE positions
    /\ rm_latest_prices' = Put(rm_latest_prices, s, price)
    /\ om_latest_prices' = Put(om_latest_prices, s, price)
    /\ IF StopFires(s, price)
       THEN /\ triggered' = MarkTriggered(triggered, s)
            /\ history' = RecordAll(history,
                   << [type |-> "TICK", symbol |-> s, price |-> price],
                      StopSignal(stops[s]) >>)
            /\ tasks' = Append(tasks, [handler |-> "OrderManager._handle_signal",
                                       event |-> StopSignal(stops[s]),
                                       state |-> "pending"])
       ELSE /\ triggered' = triggered
            /\ history' = Record(history, [type |-> "TICK", symbol |-> s, price |-> price])
            /\ tasks' = tasks
    /\ UNCHANGED <<cash, orders, pc, run, snapshot, subscribers, calls, buslog, stops>>

\* The handler task of the SIGNAL runs, before anything else: the order
\* manager creates and stores the order and publishes ORDER_REQUEST, the
\* risk manager checks it, and the order manager goes to sleep for the fill.
HandleStopSignal(t) ==
    /\ tasks[t].state = "pending"
    /\ LET order == NewOrder(Len(orders) + 1, tasks[t].event)
       IN  /\ orders' = Append(orders, order)
           /\ pc' = Append(pc, "sleep")
           /\ history' = RecordAll(history,
                  << [type |-> "ORDER_REQUEST", order |-> order] >>
                  \o CheckOrderEvents(order))
    /\ tasks' = [tasks EXCEPT ![t].state = "sleeping"]
    /\ UNCHANGED <<positions, cash, rm_latest_prices, om_latest_prices, run, nEvents,
                   snapshot, subscribers, calls, buslog, stopVars>>

\* TasksAfterFill as a slip would have it: the stop-loss manager's fill
\* handler publishes a closing SIGNAL for the position the fill leaves, for
\* which gather creates the order manager's handler task.
TasksAfterFill_Resignals(ts, i, symbol, pos) ==
    IF pos.quantity = 0 THEN [ts EXCEPT ![i].state = "done"]
    ELSE Append([ts EXCEPT ![i].state = "done"],
                [handler |-> "OrderManager._handle_signal",
                 event |-> StopSignal(NewStopLevel(symbol, pos)),
                 state |-> "pending"])

\* The handler tasks once the fill of order i has been handled: neither fill
\* handler publishes a SIGNAL or a TICK, so no task is created, and
\* _handle_signal returns (the i-th order is the one of the i-th task).
TasksAfterFill(ts, i, symbol, pos) == [ts EXCEPT ![i].state = "done"]

\* bus.publish(SIGNAL) from outside (a strategy): gather creates the order
\* manager's handler task.
PipelineSignal(s, side) ==
    /\ ~HandlerPending
    /\ nEvents < MaxStopEvents
    /\ nEvents' = nEvents + 1
    /\ LET signal == [type |-> "SIGNAL", strategy_id |-> "test", symbol |-> s,
                      side |-> side, strength |-> PipelineStrength]
       IN  /\ history' = Record(history, signal)
           /\ tasks' = Append(tasks, [handler |-> "OrderManager._handle_signal",
                                      event |-> signal, state |-> "pending"])
    /\ UNCHANGED <<positions, cash, rm_latest_prices, om_latest_prices, orders, pc,
                   run, snapshot, subscribers, calls, buslog, stopVars>>

\* OrderManager._simulate_fill after its sleep: the fill is published, the
\* position tracker applies it and the stop-loss manager sets or removes
\* the symbol's stop; then _handle_signal returns.
PipelineSimulateFill(i) ==
    /\ ~HandlerPending
    /\ pc[i] = "sleep"
    /\ \A j \in 1..(i - 1) : pc[j] # "sleep"
    /\ HandleFill(NewFill(orders[i]))
    /\ pc' = [pc EXCEPT ![i] = "done"]
    /\ LET pos == positions'[orders[i].symbol]
       IN  /\ stops' = StopsAfterFill(stops, orders[i].symbol, pos)
           /\ triggered' = TriggeredAfterFill(triggered, orders[i].symbol, pos)
           /\ tasks' = TasksAfterFill(tasks, i, orders[i].symbol, pos)
    /\ UNCHANGED <<rm_latest_prices, om_latest_prices, orders, nEvents,
                   snapshot, subscribers, calls, buslog>>

NextPipeline ==
    \/ \E s \in Symbols, side \in Sides, quantity \in PipelineFillQuantities :
          PipelineFill(s, side, quantity)
    \/ \E s \in Symbols, price \in PipelineTickPrices : PipelineTick(s, price)
    \/ \E t \in DOMAIN tasks : HandleStopSignal(t)
    \/ \E i \in DOMAIN orders : PipelineSimulateFill(i)

SpecPipeline == InitPipeline /\ [][NextPipeline]_vars

\* The cascades from publishes of the three kinds from outside: fills that
\* buy one share and ticks at 0.49 on either symbol, signals to buy on one.
CascadeFillQuantity == 1

CascadeSignalSymbol == "AAPL"

CascadeTickPrice == 4900

NextCascade ==
    \/ \E s \in Symbols : PipelineFill(s, "buy", CascadeFillQuantity)
    \/ \E s \in Symbols : PipelineTick(s, CascadeTickPrice)
    \/ PipelineSignal(CascadeSignalSymbol, "buy")
    \/ \E t \in DOMAIN tasks : HandleStopSignal(t)
    \/ \E i \in DOMAIN orders : PipelineSimulateFill(i)

\* The event loop runs a handler task that is ready, and the sleep of
\* _simulate_fill ends.
SpecCascadeFair ==
    /\ InitPipeline
    /\ [][NextCascade]_vars
    /\ WF_vars(\E t \in DOMAIN tasks : HandleStopSignal(t))
    /\ WF_vars(\E i \in DOMAIN orders : PipelineSimulateFill(i))

----------------------------------------------------------------------------
(* Overlapping FILL publishes: the fills are published from concurrent      *)
(* tasks, and the position tracker's handler of one is suspended in its      *)
(* POSITION_UPDATE publish (the persistence service awaits the repository)   *)
(* while the handlers of the others run.                                     *)

\* The subscriptions of main(): the core components and the persistence
\* service.
OverlapSubscribers ==
    [type \in {"FILL", "TICK", "ORDER_REQUEST", "SIGNAL", "POSITION_UPDATE"} |->
        CASE type = "FILL" -> << "PositionTracker._handle_fill",
                                 "PersistenceService._persist_fill" >>
          [] type = "TICK" -> << "PositionTracker._handle_tick",
                                 "RiskManager._update_price",
                                 "OrderManager._update_price" >>
          [] type = "ORDER_REQUEST" -> << "RiskManager._check_order",
                                          "PersistenceService._persist_order" >>
          [] type = "SIGNAL" -> << "OrderManager._handle_signal" >>
          [] type = "POSITION_UPDATE" -> << "PersistenceService._persist_position" >>]

InitOverlap == InitWith(OverlapSubscribers)

\* The overlapping fills are all of one symbol.
OverlapSymbol == "AAPL"

\* The place in the history of the FILL event of handler task t (the t-th
\* FILL published).
FillPlace(t) ==
    CHOOSE k \in DOMAIN history :
        /\ history[k].type = "FILL"
        /\ Cardinality({j \in 1..k : history[j].type = "FILL"}) = t

\* PositionRead as a slip would have it: the handler works from the position
\* as it was when its FILL was published (the last POSITION_UPDATE of the
\* symbol before the FILL event).
PositionRead_AtPublish(t) ==
    LET symbol == tasks[t].event.symbol
        earlier == {k \in 1..FillPlace(t) :
                       /\ history[k].type = "POSITION_UPDATE"
                       /\ history[k].position.symbol = symbol}
    IN  IF earlier = {} THEN NewPosition(symbol)
        ELSE history[CHOOSE k \in earlier : \A j \in earlier : j <= k].position

\* pos = self._positions.get(fill.symbol, Position(symbol=fill.symbol)), read
\* when the handler task runs.
PositionRead(t) == GetPosition(tasks[t].event.symbol)

\* bus.publish(FILL) called by a task: the event is recorded and gather
\* creates the handler task, which has not run yet.
OverlapPublishFill(s, side, quantity, price) ==
    /\ Len(tasks) < MaxOverlap
    /\ LET event == FillEvent([order_id |-> ExternalId, symbol |-> s, side |-> side,
                               quantity |-> quantity, price |-> price])
       IN  /\ history' = Record(history, event)
           /\ tasks' = Append(tasks, [handler |-> "PositionTracker._handle_fill",
                                      event |-> event, state |-> "pending"])
    /\ UNCHANGED <<positions, cash, rm_latest_prices, om_latest_prices, orders, pc,
                   run, nEvents, snapshot, subscribers, calls, buslog, stopVars>>

\* The handler task of a FILL runs (tasks start in the order they were
\* created): PositionTracker._handle_fill reads the position, stores the new
\* one and the cash without awaiting, and calls publish(POSITION_UPDATE),
\* which records the event and suspends the handler in gather.
StartFillHandler(t) ==
    /\ tasks[t].state = "pending"
    /\ \A u \in 1..(t - 1) : tasks[u].state # "pending"
    /\ LET fill == tasks[t].event
           pos == PositionRead(t)
           new == ApplyFill(pos, fill)
       IN  /\ positions' = Put(positions, fill.symbol, new)
           /\ cash' = CashAfterFill(cash, fill)
           /\ run' = [run EXCEPT ![fill.symbol] = RunAfterFill(@, pos, fill)]
           /\ history' = Record(history, [type |-> "POSITION_UPDATE", position |-> new])
    /\ tasks' = [tasks EXCEPT ![t].state = "publishing"]
    /\ UNCHANGED <<rm_latest_prices, om_latest_prices, orders, pc, nEvents,
                   snapshot, subscribers, calls, buslog, stopVars>>

\* The POSITION_UPDATE publish of a handler returns (the persistence service
\* is done with it) and the handler returns.
ReturnFillHandler(t) ==
    /\ tasks[t].state = "publishing"
    /\ tasks' = [tasks EXCEPT ![t].state = "returned"]
    /\ UNCHANGED <<positions, cash, rm_latest_prices, om_latest_prices, orders, pc,
                   history, run, nEvents, snapshot, subscribers, calls, buslog,
                   stopVars>>

NextOverlap ==
    \/ \E side \in Sides, quantity \in FillQuantities, price \in FillPrices :
          OverlapPublishFill(OverlapSymbol, side, quantity, price)
    \/ \E t \in DOMAIN tasks : StartFillHandler(t)
    \/ \E t \in DOMAIN tasks : ReturnFillHandler(t)

SpecOverlap == InitOverlap /\ [][NextOverlap]_vars

----------------------------------------------------------------------------
(* The event bus on its own, with the handlers of its tests *)

\* The event types published on the bare bus.
BusTypes == {"TICK", "SIGNAL"}

\* The handlers subscribed to the bare bus: good_handler returns,
\* bad_handler raises ValueError, relay awaits the publish of a SIGNAL and
\* returns (as StrategyEngine._handle_tick does for a tick).
Handlers == {"good_handler", "bad_handler", "relay"}

RelayedType == "SIGNAL"

\* The elements of a list.
Range(list) == {list[i] : i \in DOMAIN list}

\* list.remove(h) for h in the list: the list without the first h.
Remove(list, h) ==
    LET first == CHOOSE i \in DOMAIN list :
                     list[i] = h /\ \A j \in 1..(i - 1) : list[j] # h
    IN  SubSeq(list, 1, first - 1) \o SubSeq(list, first + 1, Len(list))

\* UnsubscribeError as a slip would have it: a handler that is not in the
\* list is passed over in silence.
UnsubscribeError_NoOp(list, h) == "none"

\* What self._subscribers[event_type].remove(handler) raises.
UnsubscribeError(list, h) == IF h \in Range(list) THEN "none" ELSE "ValueError"

\* The handler tasks of a publish call.
TasksOf(c) == {t \in DOMAIN tasks : tasks[t].call = c}

Finished(t) == tasks[t].state \in {"returned", "raised"}

\* GatherDone as a slip would have it: the first handler to finish ends the
\* wait.
GatherDone_FirstCompleted(c) == \E t \in TasksOf(c) : Finished(t)

\* await asyncio.gather(...) of publish call c is over: every handler it
\* started has returned or raised.
GatherDone(c) == \A t \in TasksOf(c) : Finished(t)

\* The tasks after handler task t raised: gather(return_exceptions=True)
\* keeps the exception as that task's result and lets the others run.
AfterRaise(ts, t) == [ts EXCEPT ![t].state = "raised"]

\* StartHandlers as a slip would have it: only the first subscriber is called.
StartHandlers_FirstOnly(ts, c, handlers) ==
    ts \o [i \in 1..(IF handlers = << >> THEN 0 ELSE 1) |->
              [call |-> c, index |-> i, handler |-> handlers[i], state |-> "pending"]]

\* asyncio.gather(*(h(event) for h in handlers)): one task per entry of the
\* handler list, created in list order.
StartHandlers(ts, c, handlers) ==
    ts \o [i \in DOMAIN handlers |->
              [call |-> c, index |-> i, handler |-> handlers[i], state |-> "pending"]]

\* The event of the next publish call: a fresh Event object of the type.
NewEvent(type) == [type |-> type, id |-> Len(calls) + 1]

\* The record of a publish call made by parent (0: a caller outside the
\* handlers) with the handler list it found.
NewCall(type, parent, handlers) ==
    [event |-> NewEvent(type), handlers |-> handlers, parent |-> parent,
     state |-> IF handlers = << >> THEN "returned" ELSE "gathering"]

\* The bus calls made so far.
BusCalls == Len(calls) + Len(buslog)

\* A fresh bus; no component is constructed.
InitBus ==
    /\ positions = << >>
    /\ cash = initial_cash
    /\ rm_latest_prices = << >>
    /\ om_latest_prices = << >>
    /\ orders = << >>
    /\ pc = << >>
    /\ history = << >>
    /\ run = [s \in Symbols |-> [dir |-> "none", n |-> 0, qty |-> 0, cost |-> 0]]
    /\ nEvents = 0
    /\ snapshot = NoSnapshot
    /\ subscribers = << >>
    /\ calls = << >>
    /\ tasks = << >>
    /\ buslog = << >>
    /\ stops = << >>
    /\ triggered = {}

\* What the calls on the bare bus leave alone.
coreVars == <<positions, cash, rm_latest_prices, om_latest_prices, orders, pc,
              run, nEvents, snapshot, stops, triggered>>

\* bus.subscribe(type, h)
Subscribe(type, h) ==
    /\ BusCalls < MaxCalls
    /\ subscribers' = Put(subscribers, type, Append(Get(subscribers, type, << >>), h))
    /\ buslog' = Append(buslog, [op |-> "subscribe", type |-> type, handler |-> h,
                                 error |-> "none"])
    /\ UNCHANGED <<coreVars, history, calls, tasks>>

\* bus.unsubscribe(type, h): the defaultdict makes the type's list if there
\* is none, and list.remove raises ValueError when h is not in it.
Unsubscribe(type, h) ==
    /\ BusCalls < MaxCalls
    /\ LET list == Get(subscribers, type, << >>)
           error == UnsubscribeError(list, h)
       IN  /\ subscribers' = Put(subscribers, type,
                                 IF h \in Range(list) THEN Remove(list, h) ELSE list)
           /\ buslog' = Append(buslog, [op |-> "unsubscribe", type |-> type,
                                        handler |-> h, error |-> error])
    /\ UNCHANGED <<coreVars, history, calls, tasks>>

\* bus.publish(event) up to its await: the event is recorded, and when the
\* type has handlers one task per handler is started.
PublishEvent(type) ==
    /\ LET handlers == Get(subscribers, type, << >>)
       IN  /\ history' = Record(history, NewEvent(type))
           /\ calls' = Append(calls, NewCall(type, 0, handlers))
           /\ tasks' = StartHandlers(tasks, Len(calls) + 1, handlers)
    /\ UNCHANGED <<coreVars, subscribers, buslog>>

Publish(type) ==
    /\ BusCalls < MaxCalls
    /\ PublishEvent(type)

\* bus.get_history(event_type); "None" stands for the call without a type.
GetHistory(event_type) ==
    IF event_type = "None" THEN history
    ELSE SelectSeq(history, LAMBDA e : e.type = event_type)

\* A handler task runs (the tasks of gather start in the order they were
\* created): good_handler returns, bad_handler raises, relay publishes a
\* SIGNAL and awaits that publish, which returns at once when the type has
\* no handlers.
RunHandler(t) ==
    /\ tasks[t].state = "pending"
    /\ \A u \in 1..(t - 1) : tasks[u].state # "pending"
    /\ CASE tasks[t].handler = "good_handler" ->
              /\ tasks' = [tasks EXCEPT ![t].state = "returned"]
              /\ UNCHANGED <<history, calls>>
         [] tasks[t].handler = "bad_handler" ->
              /\ tasks' = AfterRaise(tasks, t)
              /\ UNCHANGED <<history, calls>>
         [] tasks[t].handler = "relay" ->
              LET handlers == Get(subscribers, RelayedType, << >>)
              IN  /\ BusCalls < MaxCalls
                  /\ history' = Record(history, NewEvent(RelayedType))
                  /\ calls' = Append(calls, NewCall(RelayedType, t, handlers))
                  /\ tasks' = StartHandlers(
                         [tasks EXCEPT ![t].state =
                             IF handlers = << >> THEN "returned" ELSE "awaiting"],
                         Len(calls) + 1, handlers)
    /\ UNCHANGED <<coreVars, subscribers, buslog>>

\* The result loop of publish raises IndexError: a handler raised, and the
\* handler list (the list the bus keeps, not a copy) has become too short
\* for its index by the time the results are read.
ResultLoopError(c) ==
    \E t \in TasksOf(c) :
        /\ tasks[t].state = "raised"
        /\ tasks[t].index > Len(Get(subscribers, calls[c].event.type, << >>))

\* publish after its await: the results are read (a handler's exception is
\* logged), and publish returns to its caller; a relay that awaited this
\* publish goes on to its end.
FinishPublish(c) ==
    /\ calls[c].state = "gathering"
    /\ GatherDone(c)
    /\ LET state == IF ResultLoopError(c) THEN "raised" ELSE "returned"
       IN  /\ calls' = [calls EXCEPT ![c].state = state]
           /\ tasks' = IF calls[c].parent = 0 THEN tasks
                        ELSE [tasks EXCEPT ![calls[c].parent].state = state]
    /\ UNCHANGED <<coreVars, history, subscribers, buslog>>

NextBus ==
    \/ \E type \in BusTypes, h \in Handlers : Subscribe(type, h)
    \/ \E type \in BusTypes, h \in Handlers : Unsubscribe(type, h)
    \/ \E type \in BusTypes : Publish(type)
    \/ \E t \in DOMAIN tasks : RunHandler(t)
    \/ \E c \in DOMAIN calls : FinishPublish(c)

SpecBus == InitBus /\ [][NextBus]_vars

----------------------------------------------------------------------------
(* The bounded-history scenario of test_history_bounded: one caller         *)
(* publishes a long stream of events, awaiting each publish, on a bus with  *)
(* at most one handler (subscribed before the first publish).  The stream   *)
(* has a SIGNAL at every p-th place, p among Periods, and TICKs elsewhere.  *)

Periods == {1, 2, 3}

StreamType(p, k) == IF k % p = 0 THEN "SIGNAL" ELSE "TICK"

\* The type continues the stream published so far (the first three events
\* tell the streams apart).
ContinuesStream(type) ==
    \E p \in Periods :
        /\ type = StreamType(p, Len(calls) + 1)
        /\ \A k \in 1..Min(Len(calls), 3) : calls[k].event.type = StreamType(p, k)

SubscribeFirst(type, h) ==
    /\ calls = << >>
    /\ buslog = << >>
    /\ Subscribe(type, h)

AwaitedPublish(type) ==
    /\ Len(calls) < MaxPublishes
    /\ \A c \in DOMAIN calls : calls[c].state # "gathering"
    /\ ContinuesStream(type)
    /\ PublishEvent(type)

NextHistory ==
    \/ \E type \in BusTypes, h \in {"good_handler", "bad_handler"} : SubscribeFirst(type, h)
    \/ \E type \in BusTypes : AwaitedPublish(type)
    \/ \E t \in DOMAIN tasks : RunHandler(t)
    \/ \E c \in DOMAIN calls : FinishPublish(c)

SpecHistory == InitBus /\ [][NextHistory]_vars

----------------------------------------------------------------------------
(* What the claims speak of *)

\* The step is the handling of a SIGNAL: an order is created.
SignalStep == Len(orders') = Len(orders) + 1

\* The order a signal step creates.
CreatedOrder == orders'[Len(orders')]

\* The events a step publishes, in order.
Published == SubSeq(history', Len(history) + 1, Len(history'))

\* The events the risk manager publishes in a signal step (after the SIGNAL
\* and the ORDER_REQUEST).
RiskEvents == SubSeq(Published, 3, Len(Published))

\* The step applies a fill: it publishes a FILL and the POSITION_UPDATE.
FillStep == Len(Published) = 2 /\ Published[1].type = "FILL"

\* The fill a fill step applies.
AppliedFill == Published[1]

\* The positions of the history that hold events of a type.
EventsOfType(type) == {k \in DOMAIN history : history[k].type = type}

\* The reference price of the risk checks for a symbol.
LastPrice(s) ==
    IF s \in DOMAIN rm_latest_prices THEN rm_latest_prices[s] ELSE RiskDefaultPrice

\* The signed quantity held in a symbol (0 without a position).
HeldQuantity(s) == IF s \in DOMAIN positions THEN positions[s].quantity ELSE 0

\* The stored position of a symbol before and after a step (all zero when
\* the symbol has none).
Before(s) == IF s \in DOMAIN positions THEN positions[s] ELSE NewPosition(s)

After(s) == IF s \in DOMAIN positions' THEN positions'[s] ELSE NewPosition(s)

RECURSIVE MarkToMarket(_)
MarkToMarket(syms) ==
    IF syms = {} THEN 0
    ELSE LET s == CHOOSE x \in syms : TRUE
         IN  positions[s].current_price * positions[s].quantity
             + MarkToMarket(syms \ {s})

\* total_equity = cash + sum of current_price x quantity
Equity == cash + MarkToMarket(DOMAIN positions)

\* The three limits, as the risk manager evaluates them for an order.
FailsOrderValue(o) == LastPrice(o.symbol) * o.quantity > max_order_value

FailsPositionSize(o) ==
    LastPrice(o.symbol) * Abs(HeldQuantity(o.symbol) + o.quantity) > max_position_size

\* (initial_cash - total_equity) / initial_cash > max_drawdown_pct
FailsDrawdown ==
    (initial_cash - Equity) * MaxDrawdownDen > MaxDrawdownNum * initial_cash

\* The projected position value with the sign the order's side gives.
SignedProjectedValue(o) ==
    LastPrice(o.symbol) *
        Abs(IF o.side = "buy" THEN HeldQuantity(o.symbol) + o.quantity
                              ELSE HeldQuantity(o.symbol) - o.quantity)

\* The rules of the RISK_BREACH events among a sequence of events.
RECURSIVE BreachRules(_)
BreachRules(events) ==
    IF events = << >> THEN << >>
    ELSE (IF Head(events).type = "RISK_BREACH" THEN << Head(events).rule >> ELSE << >>)
         \o BreachRules(Tail(events))

\* The last order was risk-checked by the last step taken: nothing has been
\* published since its ORDER_REQUEST and the risk manager's events for it.
JustChecked(rules) ==
    /\ orders # << >>
    /\ pc[Len(orders)] = "sleep"
    /\ LET n == Len(history)
           k == Len(rules)
       IN  /\ n >= 1 + 2 * k
           /\ history[n - 2 * k].type = "ORDER_REQUEST"
           /\ history[n - 2 * k].order.id = Len(orders)
           /\ BreachRules(SubSeq(history, n - 2 * k + 1, n)) = rules

\* What the FILL events among a sequence of events add to cash: price x
\* quantity of every SELL less price x quantity of every BUY.
RECURSIVE NetFillValue(_)
NetFillValue(events) ==
    IF events = << >> THEN 0
    ELSE (IF Head(events).type # "FILL" THEN 0
          ELSE IF Head(events).side = "sell"
               THEN Head(events).price * Head(events).quantity
               ELSE 0 - Head(events).price * Head(events).quantity)
         + NetFillValue(Tail(events))

\* The step is the publish of a TICK.
TickStep == Len(Published) >= 1 /\ Published[1].type = "TICK"

\* The sums of the positions' realized and unrealized profit and loss.
RECURSIVE RealizedSum(_)
RealizedSum(syms) ==
    IF syms = {} THEN 0
    ELSE LET s == CHOOSE x \in syms : TRUE
         IN  positions[s].realized_pnl + RealizedSum(syms \ {s})

RECURSIVE UnrealizedSum(_)
UnrealizedSum(syms) ==
    IF syms = {} THEN 0
    ELSE LET s == CHOOSE x \in syms : TRUE
         IN  positions[s].unrealized_pnl + UnrealizedSum(syms \ {s})

\* The step is a read of the portfolio snapshot: a call from outside that
\* publishes nothing.
SnapshotStep == nEvents' = nEvents + 1 /\ history' = history

\* The step is the publish of a SIGNAL.
SignalPublished == Len(Published) >= 1 /\ Published[1].type = "SIGNAL"

\* The positions of a sequence of events that hold the ORDER_REQUEST of an order.
RequestsOf(events, order) ==
    {k \in DOMAIN events : events[k].type = "ORDER_REQUEST" /\ events[k].order = order}

\* The positions of the history that hold a FILL of an order id.
FillsOf(id) == {k \in EventsOfType("FILL") : history[k].order_id = id}

\* The risk manager has rejected the order.
Rejected(id) ==
    \E u \in EventsOfType("ORDER_UPDATE") :
        history[u].order_id = id /\ history[u].status = "rejected"

\* Every order has at most one FILL, which carries its symbol, side and
\* quantity; an approved order has none while its handler sleeps and exactly
\* one once the handler is done; every FILL of the order manager is for one
\* of its orders.
FillsMatchOrders ==
    /\ \A i \in DOMAIN orders :
          /\ Cardinality(FillsOf(orders[i].id)) <= 1
          /\ \A k \in FillsOf(orders[i].id) :
                /\ history[k].symbol = orders[i].symbol
                /\ history[k].side = orders[i].side
                /\ history[k].quantity = orders[i].quantity
          /\ ~Rejected(orders[i].id) =>
                Cardinality(FillsOf(orders[i].id)) = (IF pc[i] = "done" THEN 1 ELSE 0)
    /\ \A k \in EventsOfType("FILL") :
          history[k].order_id # ExternalId =>
              \E i \in DOMAIN orders : orders[i].id = history[k].order_id

\* The number of entries of a sequence that satisfy a test on (op, error)
\* for a type and a handler.
RECURSIVE CountLog(_, _, _, _, _)
CountLog(log, type, h, op, error) ==
    IF log = << >> THEN 0
    ELSE (IF /\ Head(log).type = type /\ Head(log).handler = h
             /\ Head(log).op = op /\ Head(log).error = error
          THEN 1 ELSE 0)
         + CountLog(Tail(log), type, h, op, error)

\* The subscriptions handler h holds to a type: the subscribe calls made
\* less the unsubscribe calls that returned.
SubscriptionCount(type, h) ==
    CountLog(buslog, type, h, "subscribe", "none")
        - CountLog(buslog, type, h, "unsubscribe", "none")

\* The last subscribe or unsubscribe call made for a type and a handler that
\* returned ("none" when there is none).
LastReturned(type, h) ==
    LET made == {k \in DOMAIN buslog :
                    /\ buslog[k].type = type /\ buslog[k].handler = h
                    /\ buslog[k].error = "none"}
    IN  IF made = {} THEN "none"
        ELSE buslog[CHOOSE k \in made : \A l \in made : l <= k].op

\* The step is a publish (by an outside caller or by a handler).
PublishStep == Len(calls') = Len(calls) + 1

\* The event a publish step publishes.
PublishedEvent == calls'[Len(calls')].event

\* How many times a publish step invokes handler h.
Invocations(h) ==
    Cardinality({t \in DOMAIN tasks' \ DOMAIN tasks :
                    tasks'[t].handler = h /\ tasks'[t].call = Len(calls')})

\* The step is an unsubscribe call.
UnsubscribeStep ==
    /\ Len(buslog') = Len(buslog) + 1
    /\ buslog'[Len(buslog')].op = "unsubscribe"

\* Whether a sequence of events is in publish order (the ids of the events
\* count the publishes).
InPublishOrder(events) ==
    \A j \in 2..Len(events) : events[j - 1].id < events[j].id

\* A publish call is over for its caller.
Over(c) == calls[c].state \in {"returned", "raised"}

\* The event is the stop-loss manager's closing SIGNAL for a symbol.
IsStopSignal(e, s) == e.type = "SIGNAL" /\ e.strategy_id = "stop_loss" /\ e.symbol = s

\* The event is a FILL of a symbol.
IsFillOf(e, s) == e.type = "FILL" /\ e.symbol = s

\* The stop level the specification gives a position that is not flat.
ExpectedStop(s, pos) ==
    [symbol |-> s,
     stop_price |-> IF pos.quantity > 0
                    THEN pos.avg_entry_price * (StopLossDen - StopLossNum)
                    ELSE pos.avg_entry_price * (StopLossDen + StopLossNum),
     side_to_close |-> IF pos.quantity > 0 THEN "sell" ELSE "buy",
     quantity |-> Abs(pos.quantity)]

\* A price is at or beyond a stop level.
AtOrBeyond(stop, price) ==
    \/ stop.side_to_close = "sell" /\ price * StopLossDen <= stop.stop_price
    \/ stop.side_to_close = "buy" /\ price * StopLossDen >= stop.stop_price

\* The places of the history that hold a FILL or a stop-loss SIGNAL of a symbol.
StopEventsOf(s) ==
    {k \in DOMAIN history : IsFillOf(history[k], s) \/ IsStopSignal(history[k], s)}

\* No stop-loss signal has been emitted for the symbol since its last fill.
NotFiredSinceFill(s) ==
    /\ StopEventsOf(s) # {}
    /\ LET last == CHOOSE k \in StopEventsOf(s) : \A j \in StopEventsOf(s) : j <= k
       IN  history[last].type = "FILL"

\* The places of the history that hold a TICK of a symbol.
TicksOf(s) == {k \in EventsOfType("TICK") : history[k].symbol = s}

\* The reference price of an order's fill: the price of the most recent tick
\* of its symbol, else its limit price, else 100.00.
ReferencePrice(order) ==
    IF TicksOf(order.symbol) # {}
    THEN history[CHOOSE k \in TicksOf(order.symbol) :
                     \A j \in TicksOf(order.symbol) : j <= k].price
    ELSE IF order.limit_price # 0 THEN order.limit_price
    ELSE FillDefaultPrice

\* The order of an id the order manager has given out.
OrderOfId(id) == orders[CHOOSE i \in DOMAIN orders : orders[i].id = id]

\* The orders of the ORDER_REQUEST events among a sequence of events, in order.
RECURSIVE RequestedOrders(_)
RequestedOrders(events) ==
    IF events = << >> THEN << >>
    ELSE (IF Head(events).type = "ORDER_REQUEST" THEN << Head(events).order >> ELSE << >>)
         \o RequestedOrders(Tail(events))

\* The number of events of a type among a sequence of events.
CountType(events, type) ==
    Cardinality({k \in DOMAIN events : events[k].type = type})

\* The FILL events of the handler tasks that have started, in the order the
\* handlers started.
RECURSIVE StartedFills(_)
StartedFills(ts) ==
    IF ts = << >> THEN << >>
    ELSE (IF Head(ts).state # "pending" THEN << Head(ts).event >> ELSE << >>)
         \o StartedFills(Tail(ts))

\* The position of a symbol and the cash after fills applied one after
\* another.
RECURSIVE SequentialPosition(_, _)
SequentialPosition(pos, fills) ==
    IF fills = << >> THEN pos
    ELSE SequentialPosition(
             IF Head(fills).symbol = pos.symbol THEN ApplyFill(pos, Head(fills)) ELSE pos,
             Tail(fills))

RECURSIVE SequentialCash(_, _)
SequentialCash(c, fills) ==
    IF fills = << >> THEN c
    ELSE SequentialCash(CashAfterFill(c, Head(fills)), Tail(fills))

\* Order j was created while order i, created before it, was still waiting
\* for its fill: the ORDER_REQUEST of j is in the history before the FILL of i.
InFlightTogether(i, j) ==
    /\ i < j
    /\ \E r \in EventsOfType("ORDER_REQUEST"), f \in FillsOf(orders[i].id) :
          history[r].order.id = orders[j].id /\ r < f

\* The fill step applies the fill of an order made from a stop-loss signal.
StopOrderFilled ==
    /\ FillStep
    /\ AppliedFill.order_id # ExternalId
    /\ OrderOfId(AppliedFill.order_id).strategy_id = "stop_loss"

\* The number of elements of a set of places of the history.
CountOf(places) == Cardinality(places)

\* The places of the history that hold a stop-loss SIGNAL of a symbol.
StopSignalsOf(s) ==
    {k \in EventsOfType("SIGNAL") :
        history[k].symbol = s /\ history[k].strategy_id = "stop_loss"}

\* The orders made from the stop-loss signals of a symbol.
StopOrdersOf(s) ==
    {i \in DOMAIN orders : orders[i].symbol = s /\ orders[i].strategy_id = "stop_loss"}

\* Every handler task created so far has returned (a task, once returned,
\* stays so, and no task is ever removed).
AllHandlersReturned == \A t \in DOMAIN tasks : tasks[t].state = "done"

\* The places of the history that hold the ORDER_REQUEST and the
\* ORDER_UPDATEs of an order.
RequestPlaces(order) ==
    {k \in EventsOfType("ORDER_REQUEST") : history[k].order.id = order.id}

UpdatePlaces(order) ==
    {k \in EventsOfType("ORDER_UPDATE") : history[k].order_id = order.id}

\* The events of an order stand in the history in the order request, risk
\* manager's events, fill, position update.
OrderedInHistory(order) ==
    /\ RequestPlaces(order) # {}
    /\ \A r \in RequestPlaces(order) :
          /\ \A u \in UpdatePlaces(order) :
                /\ r < u
                /\ history[u - 1].type = "RISK_BREACH" => r < u - 1
          /\ \A f \in FillsOf(order.id) : r < f
    /\ \A f \in FillsOf(order.id) :
          /\ \A u \in UpdatePlaces(order) : u < f
          /\ f + 1 \in DOMAIN history
          /\ history[f + 1].type = "POSITION_UPDATE"
          /\ history[f + 1].position.symbol = order.symbol

\* The places of the history that hold a FILL of a symbol.
FillPlacesOf(s) == {k \in EventsOfType("FILL") : history[k].symbol = s}

\* The position of a symbol before the event at a place of the history: the
\* one the last POSITION_UPDATE of the symbol before it carries, or none.
PositionBeforePlace(s, k) ==
    LET ups == {u \in EventsOfType("POSITION_UPDATE") :
                   u < k /\ history[u].position.symbol = s}
    IN  IF ups = {} THEN NewPosition(s)
        ELSE history[CHOOSE u \in ups : \A v \in ups : v <= u].position

\* The profit or loss the fill at a place realizes: on the part of it that
\* closes the position held before it, against that position's average
\* entry price.
RealizedAtPlace(k) ==
    LET f == history[k]
        pre == PositionBeforePlace(f.symbol, k)
    IN  IF f.side = "sell" /\ pre.quantity > 0
        THEN (f.price - pre.avg_entry_price) * Min(f.quantity, pre.quantity)
        ELSE IF f.side = "buy" /\ pre.quantity < 0
        THEN (pre.avg_entry_price - f.price) * Min(f.quantity, 0 - pre.quantity)
        ELSE 0

\* The running sums over a set of fills: P&L realized, signed quantity.
RECURSIVE RunningRealized(_)
RunningRealized(places) ==
    IF places = {} THEN 0
    ELSE LET k == CHOOSE x \in places : TRUE
         IN  RealizedAtPlace(k) + RunningRealized(places \ {k})

RECURSIVE NetFilled(_)
NetFilled(places) ==
    IF places = {} THEN 0
    ELSE LET k == CHOOSE x \in places : TRUE
         IN  (IF history[k].side = "buy" THEN history[k].quantity
                                         ELSE 0 - history[k].quantity)
             + NetFilled(places \ {k})

\* The symbol and the price of the tick a tick step publishes.
TickSymbol == Published[1].symbol

TickPrice == Published[1].price


----------------------------------------------------------------------------
(* Claims *)

\* C1: no FILL event is ever published for an order the risk manager
\* rejected (an order with an ORDER_UPDATE of status rejected).  The order
\* manager fills every order, so this is violated.
C1_NoFillForRejectedOrder ==
    \A u \in EventsOfType("ORDER_UPDATE"), f \in EventsOfType("FILL") :
        history[u].status = "rejected" => history[f].order_id # history[u].order_id

\* C2: in the accumulation scenario (price of the symbol fixed at p by its
\* one tick, same-side signals, each awaited), every applied fill leaves
\* p x |position quantity| <= max_position_size.  Violated: rejected orders
\* are filled as well (C1).
C2_PositionWithinLimit ==
    \A s \in DOMAIN positions :
        s \in DOMAIN rm_latest_prices =>
            rm_latest_prices[s] * Abs(positions[s].quantity) <= max_position_size

\* C3: the risk checks run in the order max-order-value, max-position-size,
\* max-drawdown and the first failure wins: an order failing the order-value
\* check is rejected with max_order_value_exceeded alone whatever else it
\* fails, an order passing it and failing the position-size check is
\* rejected with max_position_size_exceeded alone even when the drawdown
\* check fails too, and no order yields more than one rejection.
C3_FirstFailureWins ==
    [][SignalStep =>
        LET o == CreatedOrder
            rules == BreachRules(RiskEvents)
        IN  /\ Len(rules) <= 1
            /\ FailsOrderValue(o) => rules = << "max_order_value_exceeded" >>
            /\ (~FailsOrderValue(o) /\ FailsPositionSize(o)) =>
                   rules = << "max_position_size_exceeded" >>
            /\ (~FailsOrderValue(o) /\ ~FailsPositionSize(o) /\ FailsDrawdown) =>
                   rules = << "max_drawdown_exceeded" >>
    ]_vars

\* C3 witness: an order that passes the order-value check and fails both the
\* position-size and the drawdown check has just been rejected for position
\* size.
C3_Witness ==
    /\ JustChecked(<< "max_position_size_exceeded" >>)
    /\ ~FailsOrderValue(orders[Len(orders)])
    /\ FailsPositionSize(orders[Len(orders)])
    /\ FailsDrawdown

\* C4: for every ORDER_REQUEST the risk manager handles, a rejection
\* publishes exactly one RISK_BREACH followed by exactly one ORDER_UPDATE
\* with the order's id, status rejected and the breach message as reason,
\* and an approval (no limit fails) publishes nothing.
C4_RejectionEvents ==
    [][SignalStep =>
        LET o == CreatedOrder
            ev == RiskEvents
        IN  IF FailsOrderValue(o) \/ FailsPositionSize(o) \/ FailsDrawdown
            THEN /\ Len(ev) = 2
                 /\ ev[1].type = "RISK_BREACH"
                 /\ ev[2].type = "ORDER_UPDATE"
                 /\ ev[2].order_id = o.id
                 /\ ev[2].status = "rejected"
                 /\ ev[2].reason = ev[1].message
            ELSE ev = << >>
    ]_vars

\* C4 witness: one order has been approved silently and a later one has just
\* been rejected.
C4_Witness ==
    /\ Len(orders) = 2
    /\ EventsOfType("ORDER_UPDATE") = {Len(history)}
    /\ history[Len(history)].order_id = 2
    /\ history[Len(history) - 1].type = "RISK_BREACH"

\* C5: the position-size check compares the projected position with the
\* sign of the order's side (|q + n| for a BUY, |q - n| for a SELL): an
\* order that passes the order-value check is rejected for position size
\* exactly when lastPrice x |q +/- n| > max_position_size.  Violated: the
\* risk manager adds the quantity for a SELL too.
C5_SignedProjection ==
    [][(SignalStep /\ ~FailsOrderValue(CreatedOrder)) =>
        (BreachRules(RiskEvents) = << "max_position_size_exceeded" >>
            <=> SignedProjectedValue(CreatedOrder) > max_position_size)
    ]_vars

\* C6: an order that passes the order-value and the position-size check is
\* rejected with max_drawdown_exceeded if and only if
\* (initial_cash - total_equity) / initial_cash > max_drawdown_pct, with
\* the total equity of the snapshot at the check; the order's symbol, side
\* and quantity play no part.
C6_DrawdownIff ==
    [][(SignalStep /\ ~FailsOrderValue(CreatedOrder) /\ ~FailsPositionSize(CreatedOrder)) =>
        (BreachRules(RiskEvents) = << "max_drawdown_exceeded" >> <=> FailsDrawdown)
    ]_vars

\* C6 witness: an order within the order-value and position-size limits has
\* just been rejected for drawdown while a position is marked to a price.
C6_Witness ==
    /\ JustChecked(<< "max_drawdown_exceeded" >>)
    /\ \E s \in DOMAIN positions : positions[s].current_price * positions[s].quantity # 0

\* C7: while a symbol's position has been built from flat by same-direction
\* fills only (n fills, quantities summing to Q, costs q x p summing to S),
\* |quantity| = Q and avg_entry_price = S / Q up to the rounding of each
\* fill (half a unit of the fourth decimal per fill).  Violated: adding to
\* a short keeps the first fill's price.
C7_AverageCost ==
    \A s \in DOMAIN positions :
        run[s].dir # "none" =>
            /\ Abs(positions[s].quantity) = run[s].qty
            /\ 2 * Abs(positions[s].avg_entry_price * run[s].qty - run[s].cost)
                   <= run[s].n * run[s].qty

\* C8: a SELL fill at F against a long of Q with average entry A adds
\* (F - A) x min(fillQty, Q) to the symbol's realized_pnl, a BUY fill against
\* a short of size Q adds (A - F) x min(fillQty, Q), and a fill that opens or
\* adds to a position in its own direction leaves realized_pnl unchanged.
C8_RealizedPnl ==
    [][FillStep =>
        LET f == AppliedFill
            pre == Before(f.symbol)
            added == After(f.symbol).realized_pnl - pre.realized_pnl
        IN  IF f.side = "sell" /\ pre.quantity > 0
            THEN added = (f.price - pre.avg_entry_price) * Min(f.quantity, pre.quantity)
            ELSE IF f.side = "buy" /\ pre.quantity < 0
            THEN added = (pre.avg_entry_price - f.price) * Min(f.quantity, 0 - pre.quantity)
            ELSE added = 0
    ]_vars

\* C8 witness: a short has been bought back in part at another price, and a
\* profit or loss is realized on it.
C8_Witness ==
    \E s \in DOMAIN positions :
        positions[s].realized_pnl # 0 /\ positions[s].quantity < 0

\* C9: a fill that brings a symbol's quantity to exactly 0 leaves the stored
\* position with avg_entry_price = 0 and unrealized_pnl = 0.  Violated: a BUY
\* closing a short stores the fill price, and no fill touches unrealized_pnl.
C9_FlatReset ==
    [][(FillStep /\ Before(AppliedFill.symbol).quantity # 0
                 /\ After(AppliedFill.symbol).quantity = 0) =>
        /\ After(AppliedFill.symbol).avg_entry_price = 0
        /\ After(AppliedFill.symbol).unrealized_pnl = 0
    ]_vars

\* C10: a fill of n against an opposing position of size s < n realizes the
\* profit or loss on s units and leaves n - s units in the fill's direction
\* with avg_entry_price equal to the fill price.  Violated: a SELL through a
\* long stores average 0.
C10_Reversal ==
    [][FillStep =>
        LET f == AppliedFill
            pre == Before(f.symbol)
            post == After(f.symbol)
            s == Abs(pre.quantity)
        IN  (s > 0 /\ f.quantity > s
                /\ (IF f.side = "buy" THEN pre.quantity < 0 ELSE pre.quantity > 0)) =>
            /\ post.realized_pnl - pre.realized_pnl =
                  (IF f.side = "buy" THEN pre.avg_entry_price - f.price
                                     ELSE f.price - pre.avg_entry_price) * s
            /\ post.quantity = (IF f.side = "buy" THEN f.quantity - s ELSE s - f.quantity)
            /\ post.avg_entry_price = f.price
    ]_vars

\* C11: after any sequence of fills and ticks, cash = initial_cash - the sum
\* of price x quantity over all BUY fills + the sum of price x quantity over
\* all SELL fills, whatever the direction of the position at each fill, and
\* a tick never changes cash.
C11_CashAccounting ==
    [][/\ cash' = initial_cash + NetFillValue(history')
       /\ TickStep => cash' = cash
    ]_vars

\* C11 witness: a SELL has been filled on a symbol that was not long (cash
\* rose while a short was opened or extended), a BUY has been filled too, and
\* a tick has been published after a fill.
C11_Witness ==
    /\ \E s \in DOMAIN positions : positions[s].quantity < 0
    /\ \E k \in EventsOfType("FILL") : history[k].side = "buy"
    /\ \E k \in EventsOfType("FILL"), t \in EventsOfType("TICK") : k < t
    /\ cash # initial_cash

\* C12: in every state in which all symbols are flat,
\* cash = initial_cash + total realized profit and loss, whatever fills led
\* there.  Violated: a short extended at another price keeps its first
\* average (C7) and a SELL through a long opens the short at average 0 (C10),
\* so the realized figures do not add up to the cash received.
C12_FlatCashIsRealized ==
    (\A s \in DOMAIN positions : positions[s].quantity = 0) =>
        cash = initial_cash + RealizedSum(DOMAIN positions)

\* C13: after every completed FILL or TICK publish, every stored position
\* has unrealized_pnl = (current_price - avg_entry_price) x quantity.
\* Violated: a fill changes quantity and avg_entry_price and leaves
\* unrealized_pnl as the last tick set it.
C13_UnrealizedRelation ==
    \A s \in DOMAIN positions :
        positions[s].unrealized_pnl =
            (positions[s].current_price - positions[s].avg_entry_price)
                * positions[s].quantity

\* C14: get_portfolio_snapshot returns, in any state, total_equity = cash +
\* the sum of current_price x quantity, total_unrealized_pnl = the sum of the
\* positions' unrealized_pnl, total_realized_pnl = the sum of their
\* realized_pnl (and the positions as stored), and it changes neither cash
\* nor any position.
C14_SnapshotTotals ==
    [][SnapshotStep =>
        /\ snapshot'.total_equity = Equity
        /\ snapshot'.total_unrealized_pnl = UnrealizedSum(DOMAIN positions)
        /\ snapshot'.total_realized_pnl = RealizedSum(DOMAIN positions)
        /\ snapshot'.positions = positions
        /\ cash' = cash
        /\ positions' = positions
    ]_vars

\* C14 witness: a snapshot has been read while a position was marked to a
\* price other than its entry price, so that the equity differs from cash
\* and from the value at cost.
C14_Witness ==
    /\ snapshot.positions = positions
    /\ snapshot.total_unrealized_pnl # 0
    /\ snapshot.total_equity # cash
    /\ \E s \in DOMAIN positions :
          positions[s].current_price # positions[s].avg_entry_price

\* C15: for any list of handlers subscribed to a type, of which any subset
\* raise, every publish of that type invokes each subscribed handler exactly
\* once with that event (one task per entry of the list the publish found),
\* the handlers that do not raise complete normally once the publish is
\* over, and publish returns to its caller without raising.  Violated:
\* publish raises IndexError when a handler raised and the handler list has
\* shrunk under it.
C15_ExceptionIsolation ==
    \A c \in DOMAIN calls :
        /\ Cardinality(TasksOf(c)) = Len(calls[c].handlers)
        /\ \A i \in DOMAIN calls[c].handlers :
              \E t \in TasksOf(c) :
                  tasks[t].index = i /\ tasks[t].handler = calls[c].handlers[i]
        /\ Over(c) =>
              \A t \in TasksOf(c) :
                  tasks[t].handler = "good_handler" => tasks[t].state = "returned"
        /\ calls[c].state # "raised"

\* C16: after any number k of publishes of any types, get_history() returns
\* exactly the last min(k, 1000) published events in publish order, and
\* get_history(T) returns exactly the retained events of type T in the same
\* order; an event is recorded whether or not its type has a handler.
C16_BoundedHistory ==
    LET k == Len(calls)
        all == GetHistory("None")
    IN  /\ Len(all) = Min(k, max_history)
        /\ \A i \in DOMAIN all : all[i] = calls[k - Len(all) + i].event
        /\ \A type \in BusTypes :
              LET some == GetHistory(type)
              IN  /\ Len(some) = Cardinality({i \in DOMAIN all : all[i].type = type})
                  /\ \A j \in DOMAIN some :
                        /\ some[j].type = type
                        /\ some[j].id > k - Len(all)
                        /\ some[j] = all[some[j].id - (k - Len(all))]
                  /\ InPublishOrder(some)

\* C16 witness: more events than the history holds have been published, of
\* both types, one type with a handler and the other without, and the first
\* events are gone from the history.
C16_Witness ==
    /\ Len(calls) > max_history
    /\ history[1].id = Len(calls) - max_history + 1
    /\ \A type \in BusTypes : GetHistory(type) # << >>
    /\ \E type \in BusTypes : Get(subscribers, type, << >>) # << >>
    /\ \E type \in BusTypes : Get(subscribers, type, << >>) = << >>

\* C17 as stated: a handler is invoked for a published event if and only if
\* it is subscribed to the event's type at the time of the publish (so never
\* for an event of another type), and after unsubscribe(T, h) has returned h
\* is not invoked for any later publish of T (until it is subscribed again).
\* Violated: a handler subscribed twice is still invoked after one
\* unsubscribe.
C17_DeliveryFollowsSubscription ==
    [][PublishStep =>
        \A h \in Handlers :
            /\ Invocations(h) > 0 <=> SubscriptionCount(PublishedEvent.type, h) > 0
            /\ LastReturned(PublishedEvent.type, h) = "unsubscribe" =>
                   Invocations(h) = 0
    ]_vars

\* C17 amended: a publish invokes a handler once for every subscription it
\* holds to the event's type at the time of the publish (its subscribe calls
\* less its unsubscribe calls that returned), so not at all when it holds
\* none, whatever it holds to other types; an unsubscribe that returns takes
\* away one subscription.
C17_DeliveryPerSubscription ==
    [][PublishStep =>
        \A h \in Handlers :
            Invocations(h) = SubscriptionCount(PublishedEvent.type, h)
    ]_vars

\* C17 witness: a handler subscribed twice to a type and unsubscribed once
\* has been invoked once for a publish of the type, while it is subscribed
\* to no other type.
C17_Witness ==
    \E h \in Handlers, type \in BusTypes :
        /\ CountLog(buslog, type, h, "subscribe", "none") = 2
        /\ CountLog(buslog, type, h, "unsubscribe", "none") = 1
        /\ calls # << >>
        /\ calls[Len(calls)].event.type = type
        /\ calls[Len(calls)].handlers = << h >>
        /\ Cardinality(TasksOf(Len(calls))) = 1

\* C18: unsubscribe(T, h) for a handler that is not subscribed to T at the
\* time (never subscribed, or unsubscribed already) fails with an error, and
\* the subscriptions of every handler and type stay as they were.
C18_UnsubscribeNotSubscribed ==
    [][UnsubscribeStep =>
        LET call == buslog'[Len(buslog')]
        IN  SubscriptionCount(call.type, call.handler) = 0 =>
                /\ call.error = "ValueError"
                /\ \A type \in BusTypes :
                      Get(subscribers', type, << >>) = Get(subscribers, type, << >>)
    ]_vars

\* C18 witness: a handler that was subscribed and unsubscribed has been
\* unsubscribed once more, which failed, while another handler stays
\* subscribed to the type.
C18_Witness ==
    /\ Len(buslog) = 4
    /\ buslog[4].op = "unsubscribe"
    /\ buslog[4].error = "ValueError"
    /\ CountLog(buslog, buslog[4].type, buslog[4].handler, "subscribe", "none") = 1
    /\ CountLog(buslog, buslog[4].type, buslog[4].handler, "unsubscribe", "none") = 1
    /\ Len(Get(subscribers, buslog[4].type, << >>)) = 1

\* C19: a publish is over for its caller only when every handler that was
\* subscribed to the event's type when publish was called has returned or
\* raised, the publishes those handlers awaited included; and the event is
\* in the history before any of its handlers runs.
C19_PublishAwaitsHandlers ==
    \A c \in DOMAIN calls :
        /\ Over(c) =>
              /\ Cardinality(TasksOf(c)) = Len(calls[c].handlers)
              /\ \A t \in TasksOf(c) :
                    /\ Finished(t)
                    /\ \A n \in DOMAIN calls : calls[n].parent = t => Over(n)
        /\ \E k \in DOMAIN history : history[k] = calls[c].event

\* C19 witness: a publish is over whose handler awaited a publish of its
\* own, which had a handler too.
C19_Witness ==
    \E c \in DOMAIN calls, n \in DOMAIN calls :
        /\ Over(c)
        /\ calls[n].parent \in TasksOf(c)
        /\ calls[n].handlers # << >>

\* C20: each SIGNAL the order manager handles creates exactly one
\* OrderRequest with an id no earlier order has and publishes exactly one
\* ORDER_REQUEST for it; every approved order gets exactly one FILL once its
\* handler is done (none before), no order id ever has two FILLs, and the
\* FILL's symbol, side and quantity are the order's.
C20_OneOrderOneFill ==
    [][/\ SignalPublished =>
            /\ Len(orders') = Len(orders) + 1
            /\ SubSeq(orders', 1, Len(orders)) = orders
            /\ \A i \in DOMAIN orders : orders[i].id # CreatedOrder.id
            /\ Cardinality(RequestsOf(Published, CreatedOrder)) = 1
            /\ Cardinality({k \in DOMAIN Published :
                                Published[k].type = "ORDER_REQUEST"}) = 1
       /\ ~SignalPublished => orders' = orders
       /\ FillsMatchOrders'
    ]_vars

\* C20 witness: two orders have been created, and an approved one of more
\* than one share has its fill.
C20_Witness ==
    /\ Len(orders) = 2
    /\ \E i \in DOMAIN orders :
          /\ orders[i].quantity > 1
          /\ ~Rejected(orders[i].id)
          /\ pc[i] = "done"
          /\ Cardinality(FillsOf(orders[i].id)) = 1

\* C21: between two consecutive fills of a symbol at most one stop-loss
\* SIGNAL is emitted for it, however many ticks are at or beyond the stop:
\* any two stop-loss signals of a symbol in the history have a FILL of the
\* symbol between them.
C21_FiresOncePerPosition ==
    \A s \in Symbols :
        \A i, j \in DOMAIN history :
            (i < j /\ IsStopSignal(history[i], s) /\ IsStopSignal(history[j], s)) =>
                \E k \in (i + 1)..(j - 1) : IsFillOf(history[k], s)

\* C21 witness: a stop has fired and two later ticks at or beyond it, with no
\* fill in between, have emitted nothing.
C21_Witness ==
    \E s \in Symbols :
        LET n == Len(history)
        IN  /\ n >= 3
            /\ s \in DOMAIN stops
            /\ IsStopSignal(history[n - 2], s)
            /\ \A k \in {n - 1, n} :
                  /\ history[k].type = "TICK"
                  /\ history[k].symbol = s
                  /\ AtOrBeyond(stops[s], history[k].price)

\* C22: after a FILL publish that leaves the symbol's quantity non-zero, the
\* symbol's stop level is the one computed from the post-fill position
\* (avg_entry_price x (1 - pct) and SELL for a long, x (1 + pct) and BUY for
\* a short, quantity |quantity|), whichever of the position tracker and the
\* stop-loss manager subscribed to FILL first.
C22_StopFromPostFillPosition ==
    [][FillStep /\ After(AppliedFill.symbol).quantity # 0 =>
          /\ AppliedFill.symbol \in DOMAIN stops'
          /\ stops'[AppliedFill.symbol] =
                 ExpectedStop(AppliedFill.symbol, After(AppliedFill.symbol))
    ]_vars

\* C23: a tick makes the stop-loss manager emit a SIGNAL exactly when the
\* symbol has a stop level, is not marked triggered and the price is at or
\* beyond the stop (the boundary included); the one signal emitted has
\* strategy_id stop_loss, the tick's symbol, the stop's closing side and
\* strength 1.0, and the symbol is marked triggered.
C23_TickEmitsSignal ==
    [][TickStep =>
          LET armed == /\ TickSymbol \in DOMAIN stops
                       /\ TickSymbol \notin triggered
                       /\ AtOrBeyond(stops[TickSymbol], TickPrice)
          IN  /\ Len(Published) = (IF armed THEN 2 ELSE 1)
              /\ armed =>
                    /\ Published[2] =
                          [type |-> "SIGNAL", strategy_id |-> "stop_loss",
                           symbol |-> TickSymbol,
                           side |-> stops[TickSymbol].side_to_close,
                           strength |-> 100]
                    /\ TickSymbol \in triggered'
    ]_vars

\* C23 witness: a tick exactly on the stop price of one symbol has emitted
\* the signal, and a tick short of the armed stop of the other side of
\* another symbol has emitted none.
C23_Witness ==
    \E a, b \in DOMAIN stops :
        /\ stops[a].side_to_close # stops[b].side_to_close
        /\ a \in triggered
        /\ \E k \in DOMAIN history :
              /\ k > 1
              /\ IsStopSignal(history[k], a)
              /\ history[k - 1].price * StopLossDen = stops[a].stop_price
              /\ \A j \in k..Len(history) : ~IsFillOf(history[j], a)
        /\ b \notin triggered
        /\ \E k \in DOMAIN history :
              /\ history[k].type = "TICK" /\ history[k].symbol = b
              /\ ~AtOrBeyond(stops[b], history[k].price)
              /\ \A j \in k..Len(history) : ~IsFillOf(history[j], b)

\* C24: after a fill that brings a symbol's quantity to zero the stop-loss
\* manager holds no stop level and no triggered flag for the symbol, and a
\* tick for a symbol whose quantity is zero emits no stop-loss signal.
C24_FlatRemovesStop ==
    [][/\ FillStep /\ After(AppliedFill.symbol).quantity = 0 =>
            /\ AppliedFill.symbol \notin DOMAIN stops'
            /\ AppliedFill.symbol \notin triggered'
       /\ TickStep /\ HeldQuantity(TickSymbol) = 0 => Len(Published) = 1
    ]_vars

\* C25: a fill that leaves a triggered symbol's position non-flat clears the
\* triggered flag and recomputes the stop from the position, and the next
\* tick at or beyond the stop of a position that has not fired since its
\* last fill emits a stop-loss signal.
C25_NonFlatFillRearms ==
    [][/\ ( /\ FillStep
             /\ After(AppliedFill.symbol).quantity # 0
             /\ AppliedFill.symbol \in triggered ) =>
            /\ AppliedFill.symbol \notin triggered'
            /\ AppliedFill.symbol \in DOMAIN stops'
            /\ stops'[AppliedFill.symbol] =
                   ExpectedStop(AppliedFill.symbol, After(AppliedFill.symbol))
       /\ ( /\ TickStep
             /\ HeldQuantity(TickSymbol) # 0
             /\ NotFiredSinceFill(TickSymbol)
             /\ AtOrBeyond(ExpectedStop(TickSymbol, Before(TickSymbol)), TickPrice) ) =>
            /\ Len(Published) = 2
            /\ IsStopSignal(Published[2], TickSymbol)
    ]_vars

\* C26: the OrderRequest created for a signal has quantity
\* max(1, floor(strength x 100)), order type market and the signal's symbol,
\* side and strategy_id; every OrderRequest and every Fill of the order
\* manager has quantity >= 1.
C26_QuantityFromStrength ==
    [][/\ SignalPublished =>
            /\ CreatedOrder.quantity = Max(1, Published[1].strength)
            /\ CreatedOrder.order_type = "market"
            /\ CreatedOrder.symbol = Published[1].symbol
            /\ CreatedOrder.side = Published[1].side
            /\ CreatedOrder.strategy_id = Published[1].strategy_id
       /\ \A i \in DOMAIN orders' : orders'[i].quantity >= 1
       /\ \A k \in DOMAIN history' :
             history'[k].type = "FILL" => history'[k].quantity >= 1
    ]_vars

\* C27: the price of an order's fill is the reference price plus (BUY) or
\* minus (SELL) 0.0001 times the reference price, rounded to four decimals
\* (within half a unit of the exact value), the reference price being that
\* of the most recent tick of the order's symbol, else the limit price, else
\* 100.00; a BUY fill is never below and a SELL fill never above it.
C27_FillPrice ==
    [][(FillStep /\ AppliedFill.order_id # ExternalId) =>
          LET ref == ReferencePrice(OrderOfId(AppliedFill.order_id))
              slip == AppliedFill.price - ref
          IN  IF AppliedFill.side = "buy"
              THEN /\ 2 * Abs(SlippageDen * slip - ref) <= SlippageDen
                   /\ AppliedFill.price >= ref
              ELSE /\ 2 * Abs(SlippageDen * slip + ref) <= SlippageDen
                   /\ AppliedFill.price <= ref
    ]_vars

\* C27 witness: a symbol has had two ticks of different prices and then a
\* SELL fill of an order, priced below the later tick; the value to round
\* was a tie (50.50 - 0.00505).
C27_Witness ==
    \E k \in EventsOfType("FILL") :
        /\ history[k].order_id # ExternalId
        /\ history[k].side = "sell"
        /\ \E i, j \in TicksOf(history[k].symbol) :
              /\ i < j /\ j < k
              /\ history[i].price # history[j].price
              /\ \A t \in TicksOf(history[k].symbol) : t <= j
              /\ history[j].price % SlippageDen = SlippageDen \div 2
              /\ history[k].price < history[j].price

\* C28: every OrderRequest the order manager has created (its ORDER_REQUEST
\* is in the history) is returned unchanged by get_order(id) in every later
\* state, rejected orders included; get_all_orders returns exactly the
\* orders created so far, in order; get_order of an id no order has returns
\* none.
C28_OrderLookup ==
    /\ \A k \in EventsOfType("ORDER_REQUEST") :
          GetOrder(orders, history[k].order.id) = history[k].order
    /\ GetAllOrders(orders) = RequestedOrders(history)
    /\ \A id \in {ExternalId, Len(orders) + 1} : GetOrder(orders, id) = NoOrder

\* C28 witness: after a later order has been created, an order the risk
\* manager rejected is still returned by get_order as its ORDER_REQUEST
\* carried it.
C28_Witness ==
    /\ Len(orders) >= 2
    /\ Rejected(orders[1].id)
    /\ history[CHOOSE k \in EventsOfType("ORDER_REQUEST") :
                   history[k].order.id = orders[1].id].order
          = GetOrder(orders, orders[1].id)

\* C29: every FILL the position tracker processes causes exactly one
\* POSITION_UPDATE, published within the step of the FILL publish right
\* after the FILL, whose payload is the symbol's position as stored after the
\* fill; no POSITION_UPDATE is published otherwise.
C29_OneUpdatePerFill ==
    [][/\ CountType(Published, "POSITION_UPDATE") = CountType(Published, "FILL")
       /\ \A k \in DOMAIN Published :
             Published[k].type = "FILL" =>
                /\ k + 1 \in DOMAIN Published
                /\ Published[k + 1] =
                      [type |-> "POSITION_UPDATE", position |-> After(Published[k].symbol)]
                /\ After(Published[k].symbol) # Before(Published[k].symbol)
    ]_vars

\* C29 witness: a fill published directly and the fill of an order have each
\* been followed by the POSITION_UPDATE of the position they left, the
\* second on a position the first had opened.
C29_Witness ==
    \E i, j \in EventsOfType("FILL") :
        /\ i < j
        /\ history[i].symbol = history[j].symbol
        /\ history[i].order_id = ExternalId
        /\ history[j].order_id # ExternalId
        /\ history[i + 1].type = "POSITION_UPDATE"
        /\ history[j + 1].type = "POSITION_UPDATE"
        /\ history[j + 1].position = positions[history[j].symbol]
        /\ history[i + 1].position # history[j + 1].position

\* C30: however the handling of FILL publishes overlaps, no update is lost:
\* the quantity and realized_pnl of every symbol and the cash are those of
\* the started handlers' fills applied one after another in the order the
\* handlers started.
C30_NoLostUpdate ==
    /\ cash = SequentialCash(initial_cash, StartedFills(tasks))
    /\ \A s \in Symbols :
          LET seq == SequentialPosition(NewPosition(s), StartedFills(tasks))
          IN  /\ HeldQuantity(s) = seq.quantity
              /\ Before(s).realized_pnl = seq.realized_pnl

\* C30 witness: three fills of one symbol were published before any handler
\* ran, the first handler is still suspended in its POSITION_UPDATE publish
\* while the two others have run, and the position holds all three (a
\* closing fill among them).
C30_Witness ==
    /\ Len(tasks) = 3
    /\ \A k \in 1..3 : history[k].type = "FILL"
    /\ tasks[1].state = "publishing"
    /\ tasks[2].state = "returned"
    /\ tasks[3].state = "publishing"
    /\ \A t \in 2..3 : tasks[t].event.symbol = tasks[1].event.symbol
    /\ tasks[1].event.side = "buy" /\ tasks[1].event.quantity = 2
    /\ tasks[2].event.side = "sell" /\ tasks[2].event.quantity = 1
    /\ tasks[3].event.side = "buy"
    /\ positions[tasks[1].event.symbol].quantity = 1 + tasks[3].event.quantity
    /\ positions[tasks[1].event.symbol].realized_pnl # 0

\* C31: two orders of one symbol that were in flight at once (the second
\* created while the first waited for its fill), neither rejected by the
\* risk manager, are not both filled when that takes price x |position|
\* above max_position_size: after the fill of either, with the other
\* filled, the position is within the limit.
C31_OverlappingSignalsWithinLimit ==
    [][(FillStep /\ AppliedFill.order_id # ExternalId) =>
          \A i, j \in DOMAIN orders :
              ( /\ InFlightTogether(i, j)'
                /\ AppliedFill.order_id \in {orders[i].id, orders[j].id}
                /\ orders[i].symbol = orders[j].symbol
                /\ ~Rejected(orders[i].id) /\ ~Rejected(orders[j].id)
                /\ FillsOf(orders[i].id)' # {} /\ FillsOf(orders[j].id)' # {} ) =>
              LastPrice(AppliedFill.symbol) * Abs(After(AppliedFill.symbol).quantity)
                  <= max_position_size
    ]_vars

\* C32: the fill of the order made from a stop-loss signal, the risk manager
\* not having rejected the order, brings the symbol's quantity to exactly 0,
\* whatever the size of the position, and the stop level is then removed.
C32_StopSignalClosesPosition ==
    [][(StopOrderFilled /\ ~Rejected(AppliedFill.order_id)) =>
          /\ After(AppliedFill.symbol).quantity = 0
          /\ AppliedFill.symbol \notin DOMAIN stops'
    ]_vars

\* C33: an unknown price is not an error.  When no tick has been seen for
\* the symbol of an order, the risk manager decides it as with a last price
\* of 100: order value 100 x quantity against max_order_value, then
\* projected value 100 x |held + quantity| against max_position_size, then
\* the drawdown; and the order manager fills it at 100.00 plus (BUY) or
\* minus (SELL) the slippage of 0.01.  Both steps complete.
C33_UnknownPriceDefaults ==
    [][/\ (SignalStep /\ TicksOf(CreatedOrder.symbol) = {}) =>
             LET o == CreatedOrder
                 value == 100 * Scale * o.quantity
                 projected == 100 * Scale * Abs(HeldQuantity(o.symbol) + o.quantity)
             IN  BreachRules(RiskEvents) =
                    IF value > max_order_value
                    THEN << "max_order_value_exceeded" >>
                    ELSE IF projected > max_position_size
                    THEN << "max_position_size_exceeded" >>
                    ELSE IF FailsDrawdown THEN << "max_drawdown_exceeded" >>
                    ELSE << >>
       /\ (/\ FillStep
           /\ AppliedFill.order_id # ExternalId
           /\ TicksOf(AppliedFill.symbol) = {}) =>
             AppliedFill.price = IF AppliedFill.side = "buy"
                                 THEN 100 * Scale + Scale \div 100
                                 ELSE 100 * Scale - Scale \div 100
    ]_vars

\* C33 witness: with no tick ever published for its symbol, one order has
\* been rejected for the position size (100 x |held + quantity| over the
\* limit), another has been approved, and an order has been filled at
\* 100.01 or 99.99.
C33_Witness ==
    /\ \E i \in DOMAIN orders :
          /\ TicksOf(orders[i].symbol) = {}
          /\ \E u \in EventsOfType("ORDER_UPDATE") :
                /\ history[u].order_id = orders[i].id
                /\ u > 1
                /\ history[u - 1].type = "RISK_BREACH"
                /\ history[u - 1].rule = "max_position_size_exceeded"
    /\ \E i \in DOMAIN orders :
          /\ TicksOf(orders[i].symbol) = {}
          /\ ~Rejected(orders[i].id)
          /\ \E k \in FillsOf(orders[i].id) :
                history[k].price \in {100 * Scale + Scale \div 100,
                                      100 * Scale - Scale \div 100}

\* C34: event cascades terminate.  No handler publishes a TICK (a TICK is
\* the first event of a publish from outside); a step that publishes a FILL
\* publishes the POSITION_UPDATE and nothing else, and creates no handler
\* task (no SIGNAL from a FILL); a tick publishes at most one SIGNAL and
\* creates at most one task; per symbol there are no more stop-loss signals
\* than ticks, no more stop-loss orders than stop-loss signals, and at most
\* one fill for each order.  And again and again every handler task created
\* so far has returned, so that every publish that started one returns.
C34_CascadesTerminate ==
    /\ [][/\ \A k \in DOMAIN Published :
                Published[k].type = "TICK" => (k = 1 /\ nEvents' = nEvents + 1)
          /\ (Len(Published) >= 1 /\ Published[1].type = "FILL") =>
                /\ Len(Published) = 2
                /\ Published[2].type = "POSITION_UPDATE"
                /\ Len(tasks') = Len(tasks)
                /\ ~(\E t \in DOMAIN tasks' : tasks'[t].state = "pending")
          /\ TickStep =>
                /\ Len(Published) <= 2
                /\ Len(tasks') <= Len(tasks) + 1
                /\ \A k \in 2..Len(Published) :
                      /\ Published[k].type = "SIGNAL"
                      /\ Published[k].symbol = TickSymbol
          /\ \A s \in Symbols :
                /\ CountOf(StopSignalsOf(s))' <= CountOf(TicksOf(s))'
                /\ CountOf(StopOrdersOf(s))' <= CountOf(StopSignalsOf(s))'
          /\ \A i \in DOMAIN orders' : CountOf(FillsOf(orders[i].id))' <= 1
         ]_vars
    /\ []<>AllHandlersReturned

\* C34 witness: a tick has fired a stop, the stop's signal has become an
\* order, the order has been filled and its handler task has returned,
\* with the position still open (so that the fill armed a new stop), and a
\* later tick of the symbol has been published.
C34_Witness ==
    \E i \in DOMAIN orders :
        /\ orders[i].strategy_id = "stop_loss"
        /\ pc[i] = "done"
        /\ tasks[i].state = "done"
        /\ orders[i].symbol \in DOMAIN stops
        /\ \E f \in FillsOf(orders[i].id) :
              \E k \in TicksOf(orders[i].symbol) : k > f

\* C35: opening a position at the market is equity-neutral.  When the most
\* recent tick of a symbol had price p and a fill at price p opens or
\* increases the position in the symbol, total_equity (cash plus the sum of
\* current_price x quantity) is the same after the fill as before it, and
\* the drawdown check fails after the fill only if it failed before.
C35_OpeningFillEquityNeutral ==
    [][(/\ FillStep
        /\ TicksOf(AppliedFill.symbol) # {}
        /\ AppliedFill.price = LastPrice(AppliedFill.symbol)
        /\ IF AppliedFill.side = "buy"
           THEN HeldQuantity(AppliedFill.symbol) >= 0
           ELSE HeldQuantity(AppliedFill.symbol) <= 0) =>
          /\ Equity' = Equity
          /\ FailsDrawdown' => FailsDrawdown
    ]_vars

C37_StopsMatchPositions ==
    /\ triggered \subseteq DOMAIN stops
    /\ TrackerHandlesFillFirst =>
          \A s \in Symbols : (s \in DOMAIN stops) <=> (HeldQuantity(s) # 0)

\* C37 witness: with the tracker subscribed first, one symbol has an open
\* position whose stop has fired (it is triggered and has its stop level),
\* and another symbol has been bought and sold back to flat and has none.
C37_Witness ==
    /\ TrackerHandlesFillFirst
    /\ \E s, u \in Symbols :
          /\ s \in triggered
          /\ s \in DOMAIN stops
          /\ HeldQuantity(s) # 0
          /\ u \in DOMAIN positions
          /\ positions[u].quantity = 0
          /\ u \notin DOMAIN stops

\* C38: a TICK for a symbol changes only current_price and unrealized_pnl
\* of that symbol's existing position: its quantity, avg_entry_price and
\* realized_pnl, every other symbol's position and the cash are as before,
\* and no position entry is created or removed.
C38_TickFrame ==
    [][TickStep =>
          /\ cash' = cash
          /\ DOMAIN positions' = DOMAIN positions
          /\ \A s \in DOMAIN positions :
                IF s = TickSymbol
                THEN /\ positions'[s].symbol = positions[s].symbol
                     /\ positions'[s].quantity = positions[s].quantity
                     /\ positions'[s].avg_entry_price = positions[s].avg_entry_price
                     /\ positions'[s].realized_pnl = positions[s].realized_pnl
                     /\ positions'[s].current_price = TickPrice
                ELSE positions'[s] = positions[s]
    ]_vars

\* C38 witness: the last event is a tick that has moved the current price
\* and the unrealized P&L of an open position, another symbol has had a
\* tick and has no position entry.
C38_Witness ==
    /\ history # << >>
    /\ LET last == history[Len(history)]
       IN  /\ last.type = "TICK"
           /\ last.symbol \in DOMAIN positions
           /\ positions[last.symbol].quantity # 0
           /\ positions[last.symbol].current_price = last.price
           /\ positions[last.symbol].unrealized_pnl # 0
           /\ \E u \in Symbols \ {last.symbol} :
                 /\ TicksOf(u) # {}
                 /\ u \notin DOMAIN positions

\* C39: ownership of state.  A FILL for a symbol leaves every other
\* symbol's position (and whether it has one) unchanged; the step that
\* handles an ORDER_REQUEST in the risk manager, approved or rejected,
\* changes no position, no cash and no price cache; positions and cash
\* change only in steps that publish a FILL or a TICK.
C39_StateOwnership ==
    [][/\ FillStep =>
             \A s \in Symbols \ {AppliedFill.symbol} :
                /\ (s \in DOMAIN positions') <=> (s \in DOMAIN positions)
                /\ After(s) = Before(s)
       /\ SignalStep =>
             /\ positions' = positions
             /\ cash' = cash
             /\ rm_latest_prices' = rm_latest_prices
             /\ om_latest_prices' = om_latest_prices
       /\ (positions' # positions \/ cash' # cash) => (FillStep \/ TickStep)
    ]_vars

\* C39 witness: two symbols hold open positions (each got its fills while
\* the other was there or arrived later), and the last step was the risk
\* check of an order that was rejected, another order having been approved
\* before.
C39_Witness ==
    /\ \E s, u \in Symbols : s # u /\ HeldQuantity(s) # 0 /\ HeldQuantity(u) # 0
    /\ orders # << >>
    /\ pc[Len(orders)] = "sleep"
    /\ Rejected(orders[Len(orders)].id)
    /\ history[Len(history)].type = "ORDER_UPDATE"
    /\ \E j \in DOMAIN orders : ~Rejected(orders[j].id)

\* C40: a position entry is never removed.  No step removes an entry; a
\* symbol that has received a fill has an entry whose quantity is the net
\* of its fills (0 while flat) and whose realized_pnl is the running sum of
\* the P&L its fills realized, whether or not it has been flat in between.
C40_EntryKeptRealizedAccumulates ==
    [][/\ DOMAIN positions \subseteq DOMAIN positions'
       /\ \A s \in Symbols :
             FillPlacesOf(s)' # {} =>
                /\ s \in DOMAIN positions'
                /\ positions'[s].quantity = NetFilled(FillPlacesOf(s))'
                /\ positions'[s].realized_pnl = RunningRealized(FillPlacesOf(s))'
      ]_vars

\* C40 witness: a fill left a symbol flat and realized a profit or loss, a
\* later fill has opened a position in the symbol again, and the entry
\* still carries the realized P&L.
C40_Witness ==
    \E s \in DOMAIN positions :
        /\ positions[s].quantity # 0
        /\ positions[s].realized_pnl # 0
        /\ \E m, k \in FillPlacesOf(s) :
              /\ m < k
              /\ RealizedAtPlace(m) # 0
              /\ history[m + 1].position.quantity = 0

====
